---- MODULE Spec2Model ----
(***************************************************************************)
(* Model of UInkNarrativeSubsystem (the Ink story-runtime manager):        *)
(* the three name-keyed maps of raw interpreter handles, the deprecated    *)
(* main aliases, and the facade operations over them.  The embedded        *)
(* interpreter (ink::runtime story / globals / runner) is a heap of        *)
(* objects addressed by handle; every call into it can return null or      *)
(* raise a std::exception where its API allows that.                        *)
(***************************************************************************)
EXTENDS Integers, Sequences, FiniteSets, TLC

\* ------------------------------------------------------------------ bounds
MaxHandles == 2
MaxObservers == 1
MaxThrowAt == 5
MaxChoiceIndex == 5
MaxHostLen == 3

\* --------------------------------------------------------------- constants
NULL == 0
MainStoryRunnerName == "MainStory"
Names == {MainStoryRunnerName, "Side"}
Handles == 1..MaxHandles
HandleOrNull == Handles \cup {NULL}

VarNames == {"gold"}
FunctionNames == {"notify"}
Channels == {"Ink.Event.ExternalFunctionCall"}

\* ----------------------------------------------------------- ink values
BoolVal(b) == [type |-> "Bool", b |-> b, i |-> 0, s |-> <<>>]
IntVal(i) == [type |-> "Int32", b |-> FALSE, i |-> i, s |-> <<>>]
FloatVal(micro) == [type |-> "Float", b |-> FALSE, i |-> micro, s |-> <<>>]
StrVal(s) == [type |-> "String", b |-> FALSE, i |-> 0, s |-> s]

\* ------------------------------------------------- compiled story programs
\* A compiled program as the interpreter sees it: the declared globals and a
\* graph of nodes; a node is a run of lines followed by its choices (none at
\* an end).  A line may assign a global or call an external function.
\* A choice carries the index the interpreter assigned to it.
NoEffect == [kind |-> "none", var |-> "", val |-> IntVal(0), fn |-> "", args |-> <<>>]
SetEffect(v, x) == [kind |-> "set", var |-> v, val |-> x, fn |-> "", args |-> <<>>]
CallEffect(f, a) == [kind |-> "call", var |-> "", val |-> IntVal(0), fn |-> f, args |-> a]
Line(t, e) == [text |-> t, eff |-> e]
Choice(i, t, n) == [index |-> i, text |-> t, target |-> n]

\* The program of the model: two lines, the first calling an external
\* function and the second assigning a global, then a choice point whose
\* choices carry the interpreter-assigned indices 2, 5 and 7, each leading to
\* a one-line ending.
ProgBranching ==
    [vars |-> [v \in VarNames |-> IntVal(0)],
     nodes |-> <<
        [lines |-> <<Line("a1", CallEffect("notify", <<IntVal(3), BoolVal(TRUE)>>)),
                     Line("a2", SetEffect("gold", IntVal(5)))>>,
         choices |-> <<Choice(2, "two", 2), Choice(5, "five", 3), Choice(7, "seven", 3)>>],
        [lines |-> <<Line("b1", NoEffect)>>,
         choices |-> <<>>],
        [lines |-> <<Line("c1", NoEffect)>>,
         choices |-> <<>>] >>]

ProgIds == {"branching"}

\* Programs that declare the one global with an initial value of each of the
\* four types a host string can infer to, and have a single line of text.
ProgTyped(initial) ==
    [vars |-> [v \in VarNames |-> initial],
     nodes |-> << [lines |-> <<Line("t1", NoEffect)>>, choices |-> <<>>] >>]
TypedProgIds == {"typedBool", "typedInt", "typedFloat", "typedString"}

\* A program with two choice points in a row: after one line a choice between
\* indices 0 and 1, the first leading after one more line to a second choice
\* between indices 0 and 1, everything else to a one-line ending.
ProgChained ==
    [vars |-> [v \in VarNames |-> IntVal(0)],
     nodes |-> <<
        [lines |-> <<Line("d1", NoEffect)>>,
         choices |-> <<Choice(0, "left", 2), Choice(1, "right", 3)>>],
        [lines |-> <<Line("e1", NoEffect)>>,
         choices |-> <<Choice(0, "on", 3), Choice(1, "back", 3)>>],
        [lines |-> <<Line("f1", NoEffect)>>,
         choices |-> <<>>] >>]

Prog(p) ==
    IF p \in ProgIds THEN ProgBranching
    ELSE CASE p = "chained" -> ProgChained
           [] p = "typedBool" -> ProgTyped(BoolVal(FALSE))
           [] p = "typedInt" -> ProgTyped(IntVal(0))
           [] p = "typedFloat" -> ProgTyped(FloatVal(0))
           [] OTHER -> ProgTyped(StrVal(<<>>))

\* What a caller can pass as StoryAsset: a null pointer, an asset whose
\* CompiledStory is empty, or an asset holding a compiled program.
Assets == {"null", "empty"} \cup ProgIds

\* ------------------------------------------------------------------- state
VARIABLES
    LoadedStories,      \* TMap<FName, story*>   : NULL = no entry
    GlobalVariables,    \* TMap<FName, globals*> : NULL = no entry
    ActiveRunners,      \* TMap<FName, runner*>  : NULL = no entry
    CurrentStory,       \* story* alias of the main runner's story
    MainRunner,         \* runner* alias of the main runner
    storyHeap,          \* story objects by handle
    globalsHeap,        \* globals objects by handle
    runnerHeap,         \* runner objects by handle
    last,               \* ghost: the last operation and how it ended
    hostValue,          \* the FString Value a host hands to SetVariable
    atoiSaturates,      \* the platform's FCString::Atoi saturates out of range
    inferred,           \* the ink value last inferred from hostValue
    AvailableChoices,   \* UFlowInkChoiceNode::AvailableChoices, the fetched snapshot
    ValueProp,          \* UFlowInkPropertyNode's property named Value
    triggered,          \* the output pins the last node execution triggered
    obsNode,            \* the members of one UFlowInkObservationNode and its timers
    qte,                \* the members of UQTESubsystem, its bindings and its last call
    qteHistory          \* ghost: the QTEs started and ended so far

vars == <<LoadedStories, GlobalVariables, ActiveRunners, CurrentStory, MainRunner,
          storyHeap, globalsHeap, runnerHeap, last, hostValue, atoiSaturates, inferred,
          AvailableChoices, ValueProp, triggered, obsNode, qte, qteHistory>>

codecVars == <<hostValue, atoiSaturates, inferred>>

flowVars == <<AvailableChoices, ValueProp, triggered>>

nodeVars == <<obsNode, qte, qteHistory>>

\* UFlowInkObservationNode after construction, with the variable name and the
\* polling interval (in tenths of a second) the graph's author gave it.
\* PollingTimerHandle is IsValid(); timers counts the timers of the world's
\* timer manager that call PollInkVariable; hasWorld, active and timers are
\* kept by the engine: GetWorld() # nullptr, IsActive(), FTimerManager.
ObservationNode(InkVariableName, PollingInterval) ==
    [InkVariableName |-> InkVariableName, PollingInterval |-> PollingInterval,
     LastKnownValue |-> <<>>, RemainingPollingTime |-> 0,
     PollingTimerHandle |-> FALSE, NewValue |-> <<>>,
     timers |-> 0, active |-> FALSE, hasWorld |-> TRUE]

\* An FName: text and number. NAME_None is the name no instance has.
NAME_None == <<"None", 0>>

\* FActiveQTEInfo
ActiveQTEInfoOf(QTEDataName, InstanceID) == [QTEData |-> QTEDataName, InstanceID |-> InstanceID]

\* A null UQTEDataAsset pointer.
NoAsset == "nullptr"

\* A listener that returns at once.
NoListener == "none"

NoQTEInfo == ActiveQTEInfoOf(NoAsset, NAME_None)

\* UQTESubsystem after Initialize. bound holds the bindings of the input
\* component that InputBindingHandles no longer names; serial counts the
\* QTEs made active and history records, per serial, the broadcasts.
QTESubsystem0 ==
    [bIsQTEActive |-> FALSE, ActiveQTEInfo |-> NoQTEInfo, MashCount |-> 0,
     HoldStartTime |-> 0, InputBindingHandles |-> {}, bound |-> {},
     QTE_InputMappingContext |-> TRUE, mappingContext |-> FALSE,
     InputSubsystem |-> FALSE, UniqueIDCounter |-> 0,
     QTEDurationTimerHandle |-> FALSE, ActiveQTEWidgets |-> {},
     serial |-> 0, events |-> <<>>, ret |-> NAME_None, heard |-> NAME_None,
     op |-> "Initialize", wasActive |-> FALSE]

\* The history of a run before any broadcast.
NoHistory == [started |-> {}, ended |-> {}, twice |-> {}, unstarted |-> {}]

DeadStory == [live |-> FALSE, prog |-> "none"]
DeadGlobals == [live |-> FALSE, vars |-> [v \in VarNames |-> IntVal(0)],
                observers |-> <<>>, bindings |-> {}]
DeadRunner == [live |-> FALSE, story |-> NULL, globals |-> NULL, node |-> 0, line |-> 0]

\* The members of the subsystem and the interpreter heap as one value, so
\* that an operation is a function from state to state.  listenerBound is
\* OnInkVariableChanged.IsBound(): the host binds and unbinds listeners of
\* that delegate at will, so each call is given it as an input.
Cur == [LoadedStories |-> LoadedStories, GlobalVariables |-> GlobalVariables,
        ActiveRunners |-> ActiveRunners, CurrentStory |-> CurrentStory,
        MainRunner |-> MainRunner, storyHeap |-> storyHeap,
        globalsHeap |-> globalsHeap, runnerHeap |-> runnerHeap,
        listenerBound |-> FALSE,
        doubleFree |-> FALSE,
        log |-> <<>>]

InstallMembers(st) ==
    /\ LoadedStories' = st.LoadedStories
    /\ GlobalVariables' = st.GlobalVariables
    /\ ActiveRunners' = st.ActiveRunners
    /\ CurrentStory' = st.CurrentStory
    /\ MainRunner' = st.MainRunner
    /\ storyHeap' = st.storyHeap
    /\ globalsHeap' = st.globalsHeap
    /\ runnerHeap' = st.runnerHeap

\* A call on the subsystem leaves the flow nodes' members alone.
Install(st) ==
    /\ InstallMembers(st)
    /\ UNCHANGED codecVars
    /\ UNCHANGED flowVars
    /\ UNCHANGED nodeVars

\* last: the operation, the runner name it addressed, whether it succeeded
\* (returned true, changed the runner, returned something non-empty), whether
\* the name was loaded when it was called, and whether the runner had observers
\* or bindings when it was called.  The two pure reads GetCurrentChoices and
\* GetVariable record the operation and the name only.
NoResult == [op |-> "none", name |-> "", ok |-> FALSE, note |-> "",
             wasLoaded |-> FALSE, hadRegs |-> FALSE]

\* ------------------------------------------------------- registry lookups
\* Mutation of GetRunner: a name without a runner falls back to the main runner.
GetRunner_FallbackMain(st, RunnerName) ==
    IF st.ActiveRunners[RunnerName] = NULL THEN st.MainRunner
    ELSE st.ActiveRunners[RunnerName]

GetRunner(st, RunnerName) == st.ActiveRunners[RunnerName]

\* Mutation of GetGlobals: every name is served by the globals of MainStory.
GetGlobals_Main(st, RunnerName) == st.GlobalVariables[MainStoryRunnerName]

GetGlobals(st, RunnerName) == st.GlobalVariables[RunnerName]

\* The order in which one operation creates ("new") and destroys ("delete")
\* interpreter objects: st.log is empty when an operation starts and gets one
\* entry per new_* / from_binary call that returned an object and per delete.
Logged(log, ev, kind, h, RunnerName) ==
    Append(log, [ev |-> ev, kind |-> kind, h |-> h, name |-> RunnerName])

\* The deprecated accessors return the aliases as they are.
GetStory(st) == st.CurrentStory

GetMainRunner(st) == st.MainRunner

IsStoryLoaded(st, RunnerName) ==
    /\ st.ActiveRunners[RunnerName] # NULL
    /\ st.GlobalVariables[RunnerName] # NULL
    /\ st.LoadedStories[RunnerName] # NULL

\* ------------------------------------------------ ReleaseRunnerResources
\* Mutation of ReleaseRunner: the runner is deleted but its map entry stays.
ReleaseRunner_NoRemove(st, RunnerName) ==
    LET Runner == st.ActiveRunners[RunnerName] IN
    IF Runner = NULL THEN st
    ELSE [st EXCEPT
            !.doubleFree = @ \/ ~st.runnerHeap[Runner].live,
            !.runnerHeap[Runner] = DeadRunner,
            !.log = Logged(@, "delete", "runner", Runner, RunnerName),
            !.MainRunner = IF RunnerName = MainStoryRunnerName /\ @ = Runner
                           THEN NULL ELSE @]

\* delete Runner; ActiveRunners.Remove; clear the MainRunner alias.
ReleaseRunner(st, RunnerName) ==
    LET Runner == st.ActiveRunners[RunnerName] IN
    IF Runner = NULL THEN st
    ELSE [st EXCEPT
            !.doubleFree = @ \/ ~st.runnerHeap[Runner].live,
            !.runnerHeap[Runner] = DeadRunner,
            !.log = Logged(@, "delete", "runner", Runner, RunnerName),
            !.ActiveRunners[RunnerName] = NULL,
            !.MainRunner = IF RunnerName = MainStoryRunnerName /\ @ = Runner
                           THEN NULL ELSE @]

\* Mutation of ReleaseGlobals: the globals object is deleted but its map
\* entry is not removed.
ReleaseGlobals_NoRemove(st, RunnerName) ==
    LET Globals == st.GlobalVariables[RunnerName] IN
    IF Globals = NULL THEN st
    ELSE [st EXCEPT
            !.doubleFree = @ \/ ~st.globalsHeap[Globals].live,
            !.globalsHeap[Globals] = DeadGlobals,
            !.log = Logged(@, "delete", "globals", Globals, RunnerName)]

\* delete Globals (its observers and bindings go with it); GlobalVariables.Remove.
ReleaseGlobals(st, RunnerName) ==
    LET Globals == st.GlobalVariables[RunnerName] IN
    IF Globals = NULL THEN st
    ELSE [st EXCEPT
            !.doubleFree = @ \/ ~st.globalsHeap[Globals].live,
            !.globalsHeap[Globals] = DeadGlobals,
            !.log = Logged(@, "delete", "globals", Globals, RunnerName),
            !.GlobalVariables[RunnerName] = NULL]

\* Mutation of ReleaseStory: the CurrentStory alias is not cleared.
ReleaseStory_KeepAlias(st, RunnerName) ==
    LET Story == st.LoadedStories[RunnerName] IN
    IF Story = NULL THEN st
    ELSE [st EXCEPT
            !.doubleFree = @ \/ ~st.storyHeap[Story].live,
            !.storyHeap[Story] = DeadStory,
            !.log = Logged(@, "delete", "story", Story, RunnerName),
            !.LoadedStories[RunnerName] = NULL]

\* delete Story; LoadedStories.Remove; clear the CurrentStory alias.
ReleaseStory(st, RunnerName) ==
    LET Story == st.LoadedStories[RunnerName] IN
    IF Story = NULL THEN st
    ELSE [st EXCEPT
            !.doubleFree = @ \/ ~st.storyHeap[Story].live,
            !.storyHeap[Story] = DeadStory,
            !.log = Logged(@, "delete", "story", Story, RunnerName),
            !.LoadedStories[RunnerName] = NULL,
            !.CurrentStory = IF RunnerName = MainStoryRunnerName /\ @ = Story
                             THEN NULL ELSE @]

\* Mutation of ReleaseRunnerResources: the story is deleted first and the
\* runner last.
ReleaseRunnerResources_StoryFirst(st, RunnerName) ==
    ReleaseRunner(ReleaseGlobals(ReleaseStory(st, RunnerName), RunnerName), RunnerName)

ReleaseRunnerResources(st, RunnerName) ==
    ReleaseStory(ReleaseGlobals(ReleaseRunner(st, RunnerName), RunnerName), RunnerName)

\* ---------------------------------------------------- LoadStoryForRunner
\* What the three construction calls can do: succeed, return null, or raise.
LoadFailures == {"none", "story_null", "story_throw", "globals_null",
                 "globals_throw", "runner_null", "runner_throw"}

NewGlobalsObj(p) == [live |-> TRUE, vars |-> Prog(p).vars, observers |-> <<>>,
                     bindings |-> {}]
NewRunnerObj(hs, hg) == [live |-> TRUE, story |-> hs, globals |-> hg,
                         node |-> 1, line |-> 0]

\* operator new: the lowest free address.  Handles are only ever compared
\* for equality with handles of the same kind.
Allocate(heap) ==
    LET free == {h \in Handles : ~heap[h].live}
    IN CHOOSE h \in free : \A o \in free : h <= o

\* The guard of the early return: a null asset or an empty CompiledStory.
AssetInvalid(StoryAsset) == StoryAsset \in {"null", "empty"}

\* story::from_binary on the copied bytes; LoadedStories.Add.
CreateStory(st, StoryAsset, RunnerName) ==
    LET NewStory == Allocate(st.storyHeap)
    IN [st EXCEPT !.storyHeap[NewStory] = [live |-> TRUE, prog |-> StoryAsset],
                  !.LoadedStories[RunnerName] = NewStory,
                  !.log = Logged(@, "new", "story", NewStory, RunnerName)]

\* NewStory->new_globals(); GlobalVariables.Add.
CreateGlobals(st, RunnerName) ==
    LET NewStory == st.LoadedStories[RunnerName]
        NewGlobals == Allocate(st.globalsHeap)
    IN [st EXCEPT !.globalsHeap[NewGlobals] = NewGlobalsObj(st.storyHeap[NewStory].prog),
                  !.GlobalVariables[RunnerName] = NewGlobals,
                  !.log = Logged(@, "new", "globals", NewGlobals, RunnerName)]

\* Mutation of CreateRunner: the runner is created but never added to
\* ActiveRunners.
CreateRunner_NoAdd(st, RunnerName) ==
    LET NewRunner == Allocate(st.runnerHeap)
    IN [st EXCEPT !.runnerHeap[NewRunner] =
                        NewRunnerObj(st.LoadedStories[RunnerName],
                                     st.GlobalVariables[RunnerName]),
                  !.log = Logged(@, "new", "runner", NewRunner, RunnerName)]

\* NewStory->new_runner(NewGlobals); ActiveRunners.Add.
CreateRunner(st, RunnerName) ==
    LET NewRunner == Allocate(st.runnerHeap)
    IN [st EXCEPT !.runnerHeap[NewRunner] =
                        NewRunnerObj(st.LoadedStories[RunnerName],
                                     st.GlobalVariables[RunnerName]),
                  !.ActiveRunners[RunnerName] = NewRunner,
                  !.log = Logged(@, "new", "runner", NewRunner, RunnerName)]

\* The aliases follow the instance loaded under MainStory.
SetMainAliases(st, RunnerName) ==
    IF RunnerName = MainStoryRunnerName
    THEN [st EXCEPT !.CurrentStory = st.LoadedStories[RunnerName],
                    !.MainRunner = st.ActiveRunners[RunnerName]]
    ELSE st

\* The null-handle paths: delete what was built, remove its map entries.
DropStory(st, RunnerName) ==
    [st EXCEPT !.storyHeap[st.LoadedStories[RunnerName]] = DeadStory,
               !.LoadedStories[RunnerName] = NULL,
               !.log = Logged(@, "delete", "story", st.LoadedStories[RunnerName], RunnerName)]

DropGlobals(st, RunnerName) ==
    [st EXCEPT !.globalsHeap[st.GlobalVariables[RunnerName]] = DeadGlobals,
               !.GlobalVariables[RunnerName] = NULL,
               !.log = Logged(@, "delete", "globals", st.GlobalVariables[RunnerName], RunnerName)]

\* The try block of LoadStoryForRunner and its catch clauses, from the state
\* s0 the teardown left.
BuildInstance(s0, StoryAsset, RunnerName, fail) ==
    LET s1 == CreateStory(s0, StoryAsset, RunnerName)
        s2 == CreateGlobals(s1, RunnerName)
        s3 == CreateRunner(s2, RunnerName)
    IN  CASE fail = "story_throw" ->
                [st |-> ReleaseRunnerResources(s0, RunnerName), ret |-> FALSE]
          [] fail = "story_null" ->
                [st |-> s0, ret |-> FALSE]
          [] fail = "globals_throw" ->
                [st |-> ReleaseRunnerResources(s1, RunnerName), ret |-> FALSE]
          [] fail = "globals_null" ->
                [st |-> DropStory(s1, RunnerName), ret |-> FALSE]
          [] fail = "runner_throw" ->
                [st |-> ReleaseRunnerResources(s2, RunnerName), ret |-> FALSE]
          [] fail = "runner_null" ->
                [st |-> DropStory(DropGlobals(s2, RunnerName), RunnerName), ret |-> FALSE]
          [] OTHER ->
                [st |-> SetMainAliases(s3, RunnerName), ret |-> TRUE]

\* Mutation of LoadStoryForRunner: a name that is already loaded keeps its
\* instance and the call reports success.
LoadStoryForRunner_SkipIfLoaded(st, StoryAsset, RunnerName, fail) ==
    IF AssetInvalid(StoryAsset) THEN [st |-> st, ret |-> FALSE]
    ELSE IF IsStoryLoaded(st, RunnerName) THEN [st |-> st, ret |-> TRUE]
    ELSE BuildInstance(ReleaseRunnerResources(st, RunnerName), StoryAsset,
                       RunnerName, fail)

LoadStoryForRunner(st, StoryAsset, RunnerName, fail) ==
    IF AssetInvalid(StoryAsset) THEN [st |-> st, ret |-> FALSE]
    ELSE BuildInstance(ReleaseRunnerResources(st, RunnerName), StoryAsset, RunnerName, fail)

\* ------------------------------------------------------------ Deinitialize
RECURSIVE ReleaseAll(_, _)
ReleaseAll(st, RunnerNames) ==
    IF RunnerNames = {} THEN st
    ELSE LET RunnerName == CHOOSE n \in RunnerNames : TRUE
         IN ReleaseAll(ReleaseRunnerResources(st, RunnerName), RunnerNames \ {RunnerName})

\* Mutation of Deinitialize: the maps are emptied and the aliases cleared,
\* but the instances are not released first.
Deinitialize_EmptyOnly(st) ==
    [st EXCEPT !.ActiveRunners = [n \in Names |-> NULL],
               !.GlobalVariables = [n \in Names |-> NULL],
               !.LoadedStories = [n \in Names |-> NULL],
               !.CurrentStory = NULL,
               !.MainRunner = NULL]

\* Releases every key of ActiveRunners, empties the three maps (without
\* deleting what they still hold) and clears the aliases.
Deinitialize(st) ==
    LET RunnerNames == {n \in Names : st.ActiveRunners[n] # NULL}
        s1 == ReleaseAll(st, RunnerNames)
    IN [s1 EXCEPT !.ActiveRunners = [n \in Names |-> NULL],
                  !.GlobalVariables = [n \in Names |-> NULL],
                  !.LoadedStories = [n \in Names |-> NULL],
                  !.CurrentStory = NULL,
                  !.MainRunner = NULL]

\* ------------------------------------------------------------ host strings
\* An FString is a sequence of characters.
Digits == <<"0", "1", "2", "3", "4", "5", "6", "7", "8", "9">>
IsDigit(c) == \E d \in 1..10 : Digits[d] = c
DigitValue(c) == (CHOOSE d \in 1..10 : Digits[d] = c) - 1

ToLower(c) ==
    CASE c = "T" -> "t" [] c = "R" -> "r" [] c = "U" -> "u" [] c = "E" -> "e"
      [] c = "F" -> "f" [] c = "A" -> "a" [] c = "L" -> "l" [] c = "S" -> "s"
      [] OTHER -> c

\* FString::Equals(Other, ESearchCase::IgnoreCase)
EqualsIgnoreCase(a, b) ==
    /\ Len(a) = Len(b)
    /\ \A k \in 1..Len(a) : ToLower(a[k]) = ToLower(b[k])

StrTrue == <<"t", "r", "u", "e">>
StrFalse == <<"f", "a", "l", "s", "e">>

\* FString::IsNumeric: not empty, an optional sign, then digits with at most
\* one '.'.
IsNumeric(str) ==
    /\ str # <<>>
    /\ LET body == IF str[1] \in {"-", "+"} THEN Tail(str) ELSE str
       IN /\ \A k \in 1..Len(body) : IsDigit(body[k]) \/ body[k] = "."
          /\ Cardinality({k \in 1..Len(body) : body[k] = "."}) <= 1

Contains(str, c) == \E k \in 1..Len(str) : str[k] = c

RECURSIVE DigitsToNat(_, _)
DigitsToNat(str, acc) ==
    IF str = <<>> \/ ~IsDigit(str[1]) THEN acc
    ELSE DigitsToNat(Tail(str), acc * 10 + DigitValue(str[1]))

\* The leading digits as a 32-bit word, kept as two 16-bit halves <<hi, lo>>
\* so that the arithmetic is modulo 2^32.
RECURSIVE DigitsToWord(_, _)
DigitsToWord(str, acc) ==
    IF str = <<>> \/ ~IsDigit(str[1]) THEN acc
    ELSE LET lo == acc[2] * 10 + DigitValue(str[1])
             hi == acc[1] * 10 + (lo \div 65536)
         IN DigitsToWord(Tail(str), <<hi % 65536, lo % 65536>>)

\* The int32 a word stands for (two's complement).
WordToInt32(w) == IF w[1] >= 32768 THEN (w[1] - 65536) * 65536 + w[2]
                  ELSE w[1] * 65536 + w[2]

\* The word of the negated value.
NegateWord(w) ==
    IF w = <<0, 0>> THEN w
    ELSE IF w[2] = 0 THEN <<65536 - w[1], 0>>
    ELSE <<65535 - w[1], 65536 - w[2]>>

\* The digits a conversion reads: the leading digits, without leading zeros.
RECURSIVE LeadingDigits(_)
LeadingDigits(str) ==
    IF str = <<>> \/ ~IsDigit(str[1]) THEN <<>>
    ELSE <<str[1]>> \o LeadingDigits(Tail(str))

RECURSIVE StripZeros(_)
StripZeros(str) ==
    IF str # <<>> /\ str[1] = "0" THEN StripZeros(Tail(str)) ELSE str

\* a <= b for two digit strings of the same length.
RECURSIVE DigitsLeq(_, _)
DigitsLeq(a, b) ==
    IF a = <<>> THEN TRUE
    ELSE IF DigitValue(a[1]) # DigitValue(b[1]) THEN DigitValue(a[1]) < DigitValue(b[1])
    ELSE DigitsLeq(Tail(a), Tail(b))

\* Whether the number the string starts with lies in [-2^31, 2^31 - 1].
FitsInt32(str) ==
    IF str = <<>> THEN TRUE
    ELSE LET neg == str[1] = "-"
             body == IF str[1] \in {"-", "+"} THEN Tail(str) ELSE str
             d == StripZeros(LeadingDigits(body))
             limit == IF neg THEN <<"2", "1", "4", "7", "4", "8", "3", "6", "4", "8">>
                      ELSE <<"2", "1", "4", "7", "4", "8", "3", "6", "4", "7">>
         IN Len(d) < 10 \/ (Len(d) = 10 /\ DigitsLeq(d, limit))

\* FCString::Atoi: optional sign, leading digits, converted to int32.  A number
\* out of the int32 range comes back saturated where the platform converts
\* with a 32-bit long (INT_MAX / INT_MIN) and reduced modulo 2^32 where it
\* converts with a 64-bit long and casts.
Atoi(str) ==
    IF str = <<>> THEN 0
    ELSE LET neg == str[1] = "-"
             body == IF str[1] \in {"-", "+"} THEN Tail(str) ELSE str
             w == DigitsToWord(body, <<0, 0>>)
         IN IF atoiSaturates /\ ~FitsInt32(str)
            THEN (IF neg THEN (0 - 2147483647) - 1 ELSE 2147483647)
            ELSE WordToInt32(IF neg THEN NegateWord(w) ELSE w)

RECURSIVE NatToDigits(_)
NatToDigits(n) ==
    IF n < 10 THEN <<Digits[n + 1]>>
    ELSE NatToDigits(n \div 10) \o <<Digits[(n % 10) + 1]>>

\* The digits of m + 1, computed without leaving the int32 range.
RECURSIVE SuccToDigits(_)
SuccToDigits(m) ==
    IF m < 9 THEN <<Digits[m + 2]>>
    ELSE IF m % 10 = 9 THEN SuccToDigits(m \div 10) \o <<"0">>
    ELSE NatToDigits(m \div 10) \o <<Digits[(m % 10) + 2]>>

\* FString::FromInt; the magnitude of a negative n is (-(n + 1)) + 1.
FromInt(n) == IF n < 0 THEN <<"-">> \o SuccToDigits(0 - (n + 1)) ELSE NatToDigits(n)

\* A float is held in millionths (the six decimals "%f" prints).
RECURSIVE FracToMicro(_, _, _)
FracToMicro(str, acc, left) ==
    IF left = 0 THEN acc
    ELSE IF str = <<>> \/ ~IsDigit(str[1]) THEN FracToMicro(<<>>, acc * 10, left - 1)
    ELSE FracToMicro(Tail(str), acc * 10 + DigitValue(str[1]), left - 1)

RECURSIVE AfterDot(_)
AfterDot(str) ==
    IF str = <<>> THEN <<>>
    ELSE IF str[1] = "." THEN Tail(str) ELSE AfterDot(Tail(str))

\* FCString::Atof
Atof(str) ==
    IF str = <<>> THEN 0
    ELSE LET neg == str[1] = "-"
             body == IF str[1] \in {"-", "+"} THEN Tail(str) ELSE str
             whole == DigitsToNat(body, 0)
             micro == whole * 1000000 + FracToMicro(AfterDot(body), 0, 6)
         IN IF neg THEN 0 - micro ELSE micro

RECURSIVE TrimZeros(_)
TrimZeros(str) ==
    IF Len(str) > 1 /\ str[Len(str)] = "0" THEN TrimZeros(SubSeq(str, 1, Len(str) - 1))
    ELSE str

RECURSIVE PadLeft(_, _)
PadLeft(str, n) == IF Len(str) >= n THEN str ELSE PadLeft(<<"0">> \o str, n)

\* FString::SanitizeFloat: "%f", trailing zeros trimmed, one decimal kept.
SanitizeFloat(micro) ==
    LET a == IF micro < 0 THEN 0 - micro ELSE micro
        sign == IF micro < 0 THEN <<"-">> ELSE <<>>
    IN sign \o NatToDigits(a \div 1000000) \o <<".">>
            \o TrimZeros(PadLeft(NatToDigits(a % 1000000), 6))

\* Mutation of ConvertInkValueToString: a boolean is rendered as 1 or 0.
ConvertInkValueToString_BoolAsInt(InkValue) ==
    CASE InkValue.type = "Bool" -> IF InkValue.b THEN <<"1">> ELSE <<"0">>
      [] InkValue.type = "Int32" -> FromInt(InkValue.i)
      [] InkValue.type = "String" -> InkValue.s
      [] InkValue.type = "Float" -> SanitizeFloat(InkValue.i)
      [] OTHER -> <<"[", "U", "n", "h", "a", "n", "d", "l", "e", "d", "]">>

\* ------------------------------------------------------------- value codec
ConvertInkValueToString(InkValue) ==
    CASE InkValue.type = "Bool" -> IF InkValue.b THEN StrTrue ELSE StrFalse
      [] InkValue.type = "Int32" -> FromInt(InkValue.i)
      [] InkValue.type = "String" -> InkValue.s
      [] InkValue.type = "Float" -> SanitizeFloat(InkValue.i)
      [] InkValue.type = "List" -> <<"[", "I", "n", "k", " ", "L", "i", "s", "t", "]">>
      [] InkValue.type = "None" -> <<"[", "I", "n", "k", " ", "N", "o", "n", "e", "]">>
      [] InkValue.type = "Void" -> <<"[", "I", "n", "k", " ", "V", "o", "i", "d", "]">>
      [] OTHER -> <<"[", "U", "n", "h", "a", "n", "d", "l", "e", "d", "]">>

\* Mutation of InferInkValue: the integer branch does not test for ".".
InferInkValue_NoFractionTest(Value) ==
    IF EqualsIgnoreCase(Value, StrTrue) THEN BoolVal(TRUE)
    ELSE IF EqualsIgnoreCase(Value, StrFalse) THEN BoolVal(FALSE)
    ELSE IF IsNumeric(Value) THEN IntVal(Atoi(Value))
    ELSE IF IsNumeric(Value) THEN FloatVal(Atof(Value))
    ELSE StrVal(Value)

\* The type inference at the head of SetVariable.
InferInkValue(Value) ==
    IF EqualsIgnoreCase(Value, StrTrue) THEN BoolVal(TRUE)
    ELSE IF EqualsIgnoreCase(Value, StrFalse) THEN BoolVal(FALSE)
    ELSE IF IsNumeric(Value) /\ ~Contains(Value, ".") THEN IntVal(Atoi(Value))
    ELSE IF IsNumeric(Value) THEN FloatVal(Atof(Value))
    ELSE StrVal(Value)

\* -------------------------------------------------- the interpreter's calls
ProgramOf(st, r) == Prog(st.storyHeap[st.runnerHeap[r].story].prog)
NodeOf(st, r) == ProgramOf(st, r).nodes[st.runnerHeap[r].node]

\* runner::can_continue
can_continue(st, r) == st.runnerHeap[r].line < Len(NodeOf(st, r).lines)

\* The choices the runner offers: those of its node, once its lines are read.
CurrentChoices(st, r) == IF can_continue(st, r) THEN <<>> ELSE NodeOf(st, r).choices

\* runner::num_choices
num_choices(st, r) == Len(CurrentChoices(st, r))

\* runner::get_choice(i), i counted from 0
get_choice(st, r, i) == CurrentChoices(st, r)[i + 1]

\* runner::choose accepts the index the interpreter assigned to one of the
\* current choices and raises on any other.
ChooseAccepts(st, r, idx) ==
    \E k \in 1..num_choices(st, r) : CurrentChoices(st, r)[k].index = idx

choose(st, r, idx) ==
    LET c == CHOOSE c \in {CurrentChoices(st, r)[k] : k \in 1..num_choices(st, r)} :
                c.index = idx
    IN [st EXCEPT !.runnerHeap[r].node = c.target, !.runnerHeap[r].line = 0]

VarEvent(name, value, reg) ==
    [kind |-> "var", name |-> name, value |-> value, args |-> <<>>,
     runnerName |-> "", channel |-> "",
     regRunner |-> reg.runner, regOld |-> reg.old]

ExtEvent(fn, args, runnerName, reg) ==
    [kind |-> "ext", name |-> fn, value |-> <<>>, args |-> args,
     runnerName |-> runnerName, channel |-> reg.channel,
     regRunner |-> MainStoryRunnerName, regOld |-> reg.old]

\* Mutation of OnInkVariableUpdate: the variable name is broadcast in place of
\* the value.
OnInkVariableUpdate_NameAsValue(st, VarName, NewInkValue, reg) ==
    IF st.listenerBound
    THEN <<VarEvent(VarName, <<VarName>>, reg)>>
    ELSE <<>>

\* OnInkVariableUpdate: broadcasts (VariableName, ValueStr) if a listener is
\* bound to OnInkVariableChanged.
OnInkVariableUpdate(st, VarName, NewInkValue, reg) ==
    IF st.listenerBound
    THEN <<VarEvent(VarName, ConvertInkValueToString(NewInkValue), reg)>>
    ELSE <<>>

\* The interpreter calls every observer registered on the variable, in
\* registration order.
RECURSIVE FireObservers(_, _, _, _)
FireObservers(st, obs, VarName, NewInkValue) ==
    IF obs = <<>> THEN <<>>
    ELSE (IF obs[1].var = VarName
          THEN OnInkVariableUpdate(st, VarName, NewInkValue, obs[1])
          ELSE <<>>) \o FireObservers(st, Tail(obs), VarName, NewInkValue)

\* Assignment of a global by the interpreter (globals::set_var, or a line of
\* the story): refused for an undeclared variable or another type; observers
\* run when the stored value changes.
SetAccepted(st, g, VarName, val) ==
    /\ VarName \in VarNames
    /\ st.globalsHeap[g].vars[VarName].type = val.type

set_var(st, g, VarName, val) ==
    IF ~SetAccepted(st, g, VarName, val) THEN [st |-> st, ok |-> FALSE, events |-> <<>>]
    ELSE [st |-> [st EXCEPT !.globalsHeap[g].vars[VarName] = val],
          ok |-> TRUE,
          events |-> IF st.globalsHeap[g].vars[VarName] = val THEN <<>>
                     ELSE FireObservers(st, st.globalsHeap[g].observers, VarName, val)]

\* Mutation of RunnerNameOfCaller: the name of some registered runner, without
\* comparing its handle with the caller.
RunnerNameOfCaller_NoCompare(st, CallerRunner) ==
    IF \E n \in Names : st.ActiveRunners[n] # NULL /\ n # MainStoryRunnerName
    THEN CHOOSE n \in Names : st.ActiveRunners[n] # NULL /\ n # MainStoryRunnerName
    ELSE MainStoryRunnerName

\* Mutation of ConvertArgs: the arguments are gathered last to first.
ConvertArgs_Reversed(args) ==
    [k \in 1..Len(args) |-> ConvertInkValueToString(args[Len(args) + 1 - k])]

\* The lambda bound by BindExternalFunctionWithMessage: finds the registry
\* name of the calling runner, MainStory when there is none.
RunnerNameOfCaller(st, CallerRunner) ==
    IF \E n \in Names : st.ActiveRunners[n] = CallerRunner
    THEN CHOOSE n \in Names : st.ActiveRunners[n] = CallerRunner
    ELSE MainStoryRunnerName

ConvertArgs(args) == [k \in 1..Len(args) |-> ConvertInkValueToString(args[k])]

BindingOf(st, g, fn) == {b \in st.globalsHeap[g].bindings : b.fn = fn}

\* -------------------------------------------------------------- the facade
\* The outcome of one facade call: the state it leaves, what it returns,
\* the events it broadcast, whether it handed a choice to the interpreter
\* and whether an interpreter error left the call uncaught.
\* throwAt numbers the interpreter calls the operation makes, from 1: the
\* call numbered throwAt raises a std::exception, 0 means none does.
Res(st, b, text, choices, events, forwarded, escaped) ==
    [st |-> st, retBool |-> b, retText |-> text, retChoices |-> choices,
     events |-> events, forwarded |-> forwarded, escaped |-> escaped,
     refused |-> FALSE]

\* Mutation of ChoiceIndexValid: the index is not compared with the number of
\* choices.
ChoiceIndexValid_NoUpper(ChoiceIndex, NumChoices) == ChoiceIndex >= 0

\* The condition under which MakeChoice calls choose.
ChoiceIndexValid(ChoiceIndex, NumChoices) ==
    NumChoices > 0 /\ ChoiceIndex >= 0 /\ ChoiceIndex < NumChoices

\* MakeChoice: the num_choices calls of the condition and of the warning are
\* outside the try block, choose is inside it.
MakeChoice(st, ChoiceIndex, RunnerName, throwAt) ==
    LET Runner == GetRunner(st, RunnerName)
        n == num_choices(st, Runner)
        second == n > 0 /\ ChoiceIndex >= 0      \* the condition reads num_choices again
        calls == IF second THEN 2 ELSE 1
    IN  IF Runner = NULL THEN Res(st, FALSE, <<>>, <<>>, <<>>, FALSE, FALSE)
        ELSE IF throwAt \in 1..calls THEN Res(st, FALSE, <<>>, <<>>, <<>>, FALSE, TRUE)
        ELSE IF ChoiceIndexValid(ChoiceIndex, n)
             THEN IF throwAt = calls + 1 \/ ~ChooseAccepts(st, Runner, ChoiceIndex)
                  THEN Res(st, FALSE, <<>>, <<>>, <<>>, TRUE, FALSE)
                  ELSE Res(choose(st, Runner, ChoiceIndex), FALSE, <<>>, <<>>, <<>>,
                           TRUE, FALSE)
             ELSE Res(st, FALSE, <<>>, <<>>, <<>>, FALSE, throwAt = calls + 1)

\* One runner::getline: the line's effect, then the cursor moves on.  k is the
\* number of the getline call; the argument reads of an external-function
\* callback are the calls after it.
getline(st, r, k, throwAt) ==
    LET R == st.runnerHeap[r]
        line == NodeOf(st, r).lines[R.line + 1]
        advanced == [st EXCEPT !.runnerHeap[r].line = @ + 1]
        bound == BindingOf(st, R.globals, line.eff.fn)
        nargs == Len(line.eff.args)
    IN  CASE line.eff.kind = "set" ->
                LET sv == set_var(advanced, R.globals, line.eff.var, line.eff.val)
                IN [st |-> sv.st, text |-> <<line.text>>, events |-> sv.events,
                    threw |-> FALSE, calls |-> k]
          [] line.eff.kind = "call" /\ bound # {} ->
                IF throwAt \in (k + 1)..(k + nargs)
                THEN [st |-> st, text |-> <<>>, events |-> <<>>, threw |-> TRUE,
                      calls |-> throwAt]
                ELSE [st |-> advanced, text |-> <<line.text>>,
                      events |-> <<ExtEvent(line.eff.fn, ConvertArgs(line.eff.args),
                                            RunnerNameOfCaller(st, r),
                                            CHOOSE b \in bound : TRUE)>>,
                      threw |-> FALSE, calls |-> k + nargs]
          [] OTHER ->
                [st |-> advanced, text |-> <<line.text>>, events |-> <<>>,
                 threw |-> FALSE, calls |-> k]

\* Mutation of TextLoop: one line is read, whether or not the runner can
\* continue after it.
TextLoop_OneLine(st, r, CombinedText, events, k, throwAt) ==
    IF ~can_continue(st, r)
    THEN [st |-> st, retBool |-> FALSE, retText |-> CombinedText, retChoices |-> <<>>,
          events |-> events, forwarded |-> FALSE, escaped |-> FALSE, refused |-> FALSE]
    ELSE LET g == getline(st, r, k + 2, throwAt)
         IN [st |-> g.st, retBool |-> FALSE, retText |-> CombinedText \o g.text,
             retChoices |-> <<>>, events |-> events \o g.events,
             forwarded |-> FALSE, escaped |-> FALSE, refused |-> FALSE]

\* The loop of GetCurrentText; k interpreter calls were made before.
RECURSIVE TextLoop(_, _, _, _, _, _)
TextLoop(st, r, CombinedText, events, k, throwAt) ==
    IF throwAt = k + 1 THEN Res(st, FALSE, CombinedText, <<>>, events, FALSE, FALSE)
    ELSE IF ~can_continue(st, r)
         THEN Res(st, FALSE, CombinedText, <<>>, events, FALSE, FALSE)
    ELSE IF throwAt = k + 2
         THEN Res(st, FALSE, CombinedText, <<>>, events, FALSE, FALSE)
    ELSE LET g == getline(st, r, k + 2, throwAt)
         IN IF g.threw
            THEN Res(g.st, FALSE, CombinedText, <<>>, events \o g.events, FALSE, FALSE)
            ELSE TextLoop(g.st, r, CombinedText \o g.text, events \o g.events,
                          g.calls, throwAt)

GetCurrentText(st, RunnerName, throwAt) ==
    LET Runner == GetRunner(st, RunnerName)
    IN  IF Runner = NULL THEN Res(st, FALSE, <<>>, <<>>, <<>>, FALSE, FALSE)
        ELSE TextLoop(st, Runner, <<>>, <<>>, 0, throwAt)

\* The loop of GetCurrentChoices: num_choices is call 2i+1 and get_choice(i)
\* call 2i+2; an error ends the loop with the entries gathered so far.
RECURSIVE ChoicesLoop(_, _, _, _, _)
ChoicesLoop(st, r, i, ChoicesInfo, throwAt) ==
    IF throwAt = 2 * i + 1 THEN ChoicesInfo
    ELSE IF ~(i < num_choices(st, r)) THEN ChoicesInfo
    ELSE IF throwAt = 2 * i + 2 THEN ChoicesInfo
    ELSE LET c == get_choice(st, r, i)
         IN ChoicesLoop(st, r, i + 1,
                        Append(ChoicesInfo, [Text |-> c.text, Index |-> c.index]),
                        throwAt)

GetCurrentChoices(st, RunnerName, throwAt) ==
    LET Runner == GetRunner(st, RunnerName)
    IN  IF Runner = NULL THEN Res(st, FALSE, <<>>, <<>>, <<>>, FALSE, FALSE)
        ELSE Res(st, FALSE, <<>>, ChoicesLoop(st, Runner, 0, <<>>, throwAt),
                 <<>>, FALSE, FALSE)

\* Mutation of ObserveVariable: for a runner without globals the observer is
\* registered on the globals of MainStory.
ObserveVariable_OnMainIfUnloaded(st, VariableName, RunnerName, throwAt) ==
    LET Found == GetGlobals(st, RunnerName)
        Globals == IF Found = NULL THEN GetGlobals(st, MainStoryRunnerName) ELSE Found
        reg == [var |-> VariableName, runner |-> RunnerName, old |-> FALSE]
    IN  IF Globals = NULL \/ throwAt = 1 \/ VariableName \notin VarNames
        THEN [st |-> st, retBool |-> FALSE, retText |-> <<>>, retChoices |-> <<>>,
              events |-> <<>>, forwarded |-> FALSE, escaped |-> FALSE,
              refused |-> FALSE]
        ELSE [st |-> [st EXCEPT !.globalsHeap[Globals].observers = Append(@, reg)],
              retBool |-> FALSE, retText |-> <<>>, retChoices |-> <<>>,
              events |-> <<>>, forwarded |-> FALSE, escaped |-> FALSE,
              refused |-> FALSE]

\* ObserveVariable: the lambda captures RunnerName; the registration lives in
\* the globals object.  The interpreter raises for a variable it does not know.
ObserveVariable(st, VariableName, RunnerName, throwAt) ==
    LET Globals == GetGlobals(st, RunnerName)
        reg == [var |-> VariableName, runner |-> RunnerName, old |-> FALSE]
    IN  IF Globals = NULL \/ throwAt = 1 \/ VariableName \notin VarNames
        THEN Res(st, FALSE, <<>>, <<>>, <<>>, FALSE, FALSE)
        ELSE Res([st EXCEPT !.globalsHeap[Globals].observers = Append(@, reg)],
                 FALSE, <<>>, <<>>, <<>>, FALSE, FALSE)

\* Mutation of SetVariable: the result of set_var is not looked at.
SetVariable_AlwaysTrue(st, VariableName, Value, RunnerName, throwAt) ==
    LET Globals == GetGlobals(st, RunnerName)
        InkVal == InferInkValue(Value)
        sv == set_var(st, Globals, VariableName, InkVal)
    IN  IF Globals = NULL \/ throwAt = 1
        THEN [Res(st, FALSE, <<>>, <<>>, <<>>, FALSE, FALSE) EXCEPT !.refused = FALSE]
        ELSE [Res(sv.st, TRUE, <<>>, <<>>, sv.events, FALSE, FALSE) EXCEPT
                    !.refused = ~sv.ok]

\* SetVariable: refused tells that set_var returned false (the warning path).
SetVariable(st, VariableName, Value, RunnerName, throwAt) ==
    LET Globals == GetGlobals(st, RunnerName)
        InkVal == InferInkValue(Value)
        sv == set_var(st, Globals, VariableName, InkVal)
    IN  IF Globals = NULL \/ throwAt = 1
        THEN Res(st, FALSE, <<>>, <<>>, <<>>, FALSE, FALSE)
        ELSE [Res(sv.st, sv.ok, <<>>, <<>>, sv.events, FALSE, FALSE) EXCEPT
                    !.refused = ~sv.ok]

GetVariable(st, VariableName, RunnerName, throwAt) ==
    LET Globals == GetGlobals(st, RunnerName)
    IN  IF Globals = NULL \/ throwAt = 1 \/ VariableName \notin VarNames
        THEN Res(st, FALSE, <<>>, <<>>, <<>>, FALSE, FALSE)
        ELSE Res(st, FALSE,
                 ConvertInkValueToString(st.globalsHeap[Globals].vars[VariableName]),
                 <<>>, <<>>, FALSE, FALSE)

\* The deprecated getter forwards to GetVariable for MainStory.  bFound is a
\* reference parameter the body never assigns: it leaves the call holding
\* whatever the caller's variable held.
GetVariableValueAsString(st, VariableName, bFound, throwAt) ==
    [value |-> GetVariable(st, VariableName, MainStoryRunnerName, throwAt).retText,
     bFound |-> bFound]

\* bFound and OutValue start false; a non-empty rendering counts as found and
\* is read as true / false (any case) or as a number through Atoi.
GetVariableValueAsBool(st, VariableName, throwAt) ==
    LET ValueStr == GetVariable(st, VariableName, MainStoryRunnerName, throwAt).retText
    IN  IF ValueStr = <<>>
        THEN [ret |-> FALSE, bFound |-> FALSE, OutValue |-> FALSE]
        ELSE IF EqualsIgnoreCase(ValueStr, StrTrue)
        THEN [ret |-> TRUE, bFound |-> TRUE, OutValue |-> TRUE]
        ELSE IF EqualsIgnoreCase(ValueStr, StrFalse)
        THEN [ret |-> TRUE, bFound |-> TRUE, OutValue |-> FALSE]
        ELSE IF IsNumeric(ValueStr)
        THEN [ret |-> TRUE, bFound |-> TRUE, OutValue |-> Atoi(ValueStr) # 0]
        ELSE [ret |-> FALSE, bFound |-> TRUE, OutValue |-> FALSE]

\* BindExternalFunctionWithMessage binds on the globals of MainStory; a later
\* binding of the same function name replaces the earlier one.
BindExternalFunctionWithMessage(st, FunctionName, MessageChannelTag, worldValid, throwAt) ==
    LET Globals == GetGlobals(st, MainStoryRunnerName)
        reg == [fn |-> FunctionName, channel |-> MessageChannelTag, old |-> FALSE]
    IN  IF Globals = NULL \/ ~worldValid \/ throwAt = 1
        THEN Res(st, FALSE, <<>>, <<>>, <<>>, FALSE, FALSE)
        ELSE Res([st EXCEPT !.globalsHeap[Globals].bindings =
                        {b \in @ : b.fn # FunctionName} \cup {reg}],
                 FALSE, <<>>, <<>>, <<>>, FALSE, FALSE)

\* ------------------------------------------------------------------ inputs
ThrowAts == 0..MaxThrowAt
ChoiceInputs == (0 - 1)..MaxChoiceIndex
VarInputs == VarNames \cup {"missing"}
HostStrings == {<<"5">>, <<"T", "R", "U", "E">>}

\* ------------------------------------------------------------------ ghosts
\* The observers and bindings made for RunnerName that are still held by some
\* globals object are marked old: whatever is registered at the moment a load
\* of RunnerName succeeds was registered before that load.
MarkOld(st, RunnerName) ==
    [st EXCEPT !.globalsHeap =
        [h \in Handles |->
            [@[h] EXCEPT
                !.observers = [k \in 1..Len(@) |->
                    IF @[k].runner = RunnerName THEN [@[k] EXCEPT !.old = TRUE] ELSE @[k]],
                !.bindings = IF RunnerName = MainStoryRunnerName
                             THEN {[b EXCEPT !.old = TRUE] : b \in @} ELSE @]]]

HadRegs(st, RunnerName) ==
    LET Globals == GetGlobals(st, RunnerName)
    IN /\ Globals # NULL
       /\ \/ st.globalsHeap[Globals].observers # <<>>
          \/ st.globalsHeap[Globals].bindings # {}

Called(op, RunnerName, ok) ==
    [NoResult EXCEPT !.op = op, !.name = RunnerName, !.ok = ok,
                     !.wasLoaded = IsStoryLoaded(Cur, RunnerName),
                     !.hadRegs = HadRegs(Cur, RunnerName)]

\* ----------------------------------------------------------- specification
Init ==
    /\ LoadedStories = [n \in Names |-> NULL]
    /\ GlobalVariables = [n \in Names |-> NULL]
    /\ ActiveRunners = [n \in Names |-> NULL]
    /\ CurrentStory = NULL
    /\ MainRunner = NULL
    /\ storyHeap = [h \in Handles |-> DeadStory]
    /\ globalsHeap = [h \in Handles |-> DeadGlobals]
    /\ runnerHeap = [h \in Handles |-> DeadRunner]
    /\ last = NoResult
    /\ hostValue = <<>>
    /\ atoiSaturates = FALSE
    /\ inferred = StrVal(<<>>)
    /\ AvailableChoices = <<>>
    /\ ValueProp = StrVal(<<>>)
    /\ triggered = <<>>
    /\ obsNode = ObservationNode("gold", 5)
    /\ qte = QTESubsystem0
    /\ qteHistory = NoHistory

WithListener(st, listenerBound) == [st EXCEPT !.listenerBound = listenerBound]

LoadStoryForRunnerCall(StoryAsset, RunnerName, fail) ==
    LET r == LoadStoryForRunner(Cur, StoryAsset, RunnerName, fail)
    IN /\ Install(IF r.ret THEN MarkOld(r.st, RunnerName) ELSE r.st)
       /\ last' = Called("LoadStoryForRunner", RunnerName, r.ret)

ReleaseRunnerResourcesCall(RunnerName) ==
    /\ Install(ReleaseRunnerResources(Cur, RunnerName))
    /\ last' = Called("ReleaseRunnerResources", RunnerName, TRUE)

DeinitializeCall ==
    /\ Install(Deinitialize(Cur))
    /\ last' = [NoResult EXCEPT !.op = "Deinitialize",
                                !.wasLoaded = \E n \in Names : IsStoryLoaded(Cur, n),
                                !.hadRegs = \E n \in Names : HadRegs(Cur, n)]

MakeChoiceCall(ChoiceIndex, RunnerName, throwAt) ==
    LET r == MakeChoice(Cur, ChoiceIndex, RunnerName, throwAt)
    IN /\ Install(r.st)
       /\ last' = [Called("MakeChoice", RunnerName, r.st # Cur) EXCEPT
                      !.note = IF r.escaped THEN "escaped"
                               ELSE IF r.forwarded THEN "forwarded"
                               ELSE IF IsStoryLoaded(Cur, RunnerName) THEN "rejected"
                               ELSE "not found"]

GetCurrentTextCall(RunnerName, listenerBound, throwAt) ==
    LET r == GetCurrentText(WithListener(Cur, listenerBound), RunnerName, throwAt)
    IN /\ Install(r.st)
       /\ last' = [Called("GetCurrentText", RunnerName, r.retText # <<>>) EXCEPT
                      !.note = IF \E k \in 1..Len(r.events) : r.events[k].kind = "ext"
                               THEN "called" ELSE ""]

GetCurrentChoicesCall(RunnerName, throwAt) ==
    LET r == GetCurrentChoices(Cur, RunnerName, throwAt)
    IN /\ Install(r.st)
       /\ last' = [NoResult EXCEPT !.op = "GetCurrentChoices", !.name = RunnerName]

\* The number of observer registrations the globals objects h, h-1, .., 1
\* hold; ObserveVariable is offered while fewer than MaxObservers are held.
RECURSIVE ObserversHeld(_)
ObserversHeld(h) ==
    IF h = 0 THEN 0 ELSE Len(globalsHeap[h].observers) + ObserversHeld(h - 1)

ObserveVariableCall(VariableName, RunnerName, throwAt) ==
    /\ ObserversHeld(MaxHandles) < MaxObservers
    /\ LET r == ObserveVariable(Cur, VariableName, RunnerName, throwAt)
       IN /\ Install(r.st)
          /\ last' = Called("ObserveVariable", RunnerName, r.st # Cur)

SetVariableCall(VariableName, Value, RunnerName, listenerBound, throwAt) ==
    LET r == SetVariable(WithListener(Cur, listenerBound), VariableName, Value,
                         RunnerName, throwAt)
    IN /\ Install(r.st)
       /\ last' = [Called("SetVariable", RunnerName, r.retBool) EXCEPT
                      !.note = IF r.refused THEN "refused"
                               ELSE IF r.st # WithListener(Cur, listenerBound)
                               THEN "changed" ELSE ""]

GetVariableCall(VariableName, RunnerName, throwAt) ==
    LET r == GetVariable(Cur, VariableName, RunnerName, throwAt)
    IN /\ Install(r.st)
       /\ last' = [NoResult EXCEPT !.op = "GetVariable", !.name = RunnerName]

GetVariableValueAsStringCall(VariableName, bFound, throwAt) ==
    LET r == GetVariableValueAsString(Cur, VariableName, bFound, throwAt)
    IN /\ Install(Cur)
       /\ last' = [Called("GetVariableValueAsString", MainStoryRunnerName, r.value # <<>>)
                        EXCEPT !.note = IF r.bFound THEN "found" ELSE "notfound"]

GetVariableValueAsBoolCall(VariableName, throwAt) ==
    LET r == GetVariableValueAsBool(Cur, VariableName, throwAt)
    IN /\ Install(Cur)
       /\ last' = [Called("GetVariableValueAsBool", MainStoryRunnerName, r.ret)
                        EXCEPT !.note = IF r.bFound THEN "found" ELSE "notfound"]

BindExternalFunctionWithMessageCall(FunctionName, MessageChannelTag, worldValid, throwAt) ==
    LET r == BindExternalFunctionWithMessage(Cur, FunctionName, MessageChannelTag,
                                             worldValid, throwAt)
    IN /\ Install(r.st)
       /\ last' = Called("BindExternalFunctionWithMessage", MainStoryRunnerName,
                         r.st # Cur)

\* Each operation is offered an error at every interpreter call it can make:
\* MakeChoice makes at most three, the variable and binding calls one.
Next ==
    \/ \E a \in Assets, n \in Names :
          \E f \in (IF AssetInvalid(a) THEN {"none"} ELSE LoadFailures) :
            LoadStoryForRunnerCall(a, n, f)
    \/ \E n \in Names : ReleaseRunnerResourcesCall(n)
    \/ DeinitializeCall
    \/ \E i \in ChoiceInputs, n \in Names, t \in 0..3 : MakeChoiceCall(i, n, t)
    \/ \E n \in Names, l \in BOOLEAN, t \in ThrowAts : GetCurrentTextCall(n, l, t)
    \/ \E n \in Names, t \in ThrowAts : GetCurrentChoicesCall(n, t)
    \/ \E v \in VarInputs, n \in Names, t \in 0..1 : ObserveVariableCall(v, n, t)
    \/ \E v \in VarInputs, x \in HostStrings, n \in Names, l \in BOOLEAN, t \in 0..1 :
            SetVariableCall(v, x, n, l, t)
    \/ \E v \in VarInputs, n \in Names, t \in 0..1 : GetVariableCall(v, n, t)
    \/ \E f \in FunctionNames, c \in Channels, w \in BOOLEAN, t \in 0..1 :
            BindExternalFunctionWithMessageCall(f, c, w, t)

Spec == Init /\ [][Next]_vars

\* ------------------------------------------- specification of the value codec
\* The strings a host hands to SetVariable: every string of at most MaxHostLen
\* characters over HostChars, and literals that reach the boolean spellings
\* and the edges of the int32 range.
HostChars == {"0", "5", ".", "-", "+", "a"}
HostLiterals ==
    {<<"t", "r", "u", "e">>,
     <<"T", "R", "U", "E">>,
     <<"t", "R", "u", "E">>,
     <<"f", "a", "l", "s", "e">>,
     <<"F", "a", "l", "s", "e">>,
     <<"2", "1", "4", "7", "4", "8", "3", "6", "4", "7">>,
     <<"2", "1", "4", "7", "4", "8", "3", "6", "4", "8">>,
     <<"-", "2", "1", "4", "7", "4", "8", "3", "6", "4", "8">>,
     <<"-", "2", "1", "4", "7", "4", "8", "3", "6", "4", "9">>,
     <<"4", "2", "9", "4", "9", "6", "7", "3", "0", "1">>,
     <<"9", "9", "9", "9", "9", "9", "9", "9", "9", "9", "9">>,
     <<"-", "5", ".", "2", "5">>,
     <<"0", ".", "1", "2", "5">>,
     <<"h", "e", "l", "l", "o">>}
HostValues == UNION {[1..n -> HostChars] : n \in 0..MaxHostLen} \cup HostLiterals

\* The subsystem before any load.
InitState ==
    [LoadedStories |-> [n \in Names |-> NULL],
     GlobalVariables |-> [n \in Names |-> NULL],
     ActiveRunners |-> [n \in Names |-> NULL],
     CurrentStory |-> NULL, MainRunner |-> NULL,
     storyHeap |-> [h \in Handles |-> DeadStory],
     globalsHeap |-> [h \in Handles |-> DeadGlobals],
     runnerHeap |-> [h \in Handles |-> DeadRunner],
     listenerBound |-> FALSE, doubleFree |-> FALSE, log |-> <<>>]

\* MainStory is loaded from a program that declares the global with one of
\* the four types; the host string and the platform are the inputs.
CodecInit ==
    /\ \E p \in TypedProgIds :
          LET s == LoadStoryForRunner(InitState, p, MainStoryRunnerName, "none").st
          IN /\ LoadedStories = s.LoadedStories
             /\ GlobalVariables = s.GlobalVariables
             /\ ActiveRunners = s.ActiveRunners
             /\ CurrentStory = s.CurrentStory
             /\ MainRunner = s.MainRunner
             /\ storyHeap = s.storyHeap
             /\ globalsHeap = s.globalsHeap
             /\ runnerHeap = s.runnerHeap
    /\ last = NoResult
    /\ hostValue \in HostValues
    /\ atoiSaturates \in BOOLEAN
    /\ inferred = StrVal(<<>>)
    /\ AvailableChoices = <<>>
    /\ ValueProp = StrVal(<<>>)
    /\ triggered = <<>>
    /\ obsNode = ObservationNode("gold", 5)
    /\ qte = QTESubsystem0
    /\ qteHistory = NoHistory

\* The type inference at the head of SetVariable, on its own.
InferInkValueCall ==
    /\ inferred' = InferInkValue(hostValue)
    /\ last' = [NoResult EXCEPT !.op = "InferInkValue"]
    /\ UNCHANGED <<LoadedStories, GlobalVariables, ActiveRunners, CurrentStory,
                   MainRunner, storyHeap, globalsHeap, runnerHeap, hostValue,
                   atoiSaturates>>
    /\ UNCHANGED flowVars
    /\ UNCHANGED nodeVars

CodecNext ==
    \/ InferInkValueCall
    \/ \E v \in VarInputs, l \in BOOLEAN, t \in 0..1 :
            SetVariableCall(v, hostValue, MainStoryRunnerName, l, t)
    \/ \E v \in VarInputs, t \in 0..1 : GetVariableCall(v, MainStoryRunnerName, t)
    \/ \E v \in VarInputs, b \in BOOLEAN, t \in 0..1 : GetVariableValueAsStringCall(v, b, t)
    \/ \E v \in VarInputs, t \in 0..1 : GetVariableValueAsBoolCall(v, t)
    \/ ReleaseRunnerResourcesCall(MainStoryRunnerName)

CodecSpec == CodecInit /\ [][CodecNext]_vars

\* --------------------------------------------------------------- flow nodes
\* The flow nodes work on the main runner: IsStoryLoaded(), GetRunner() and
\* MakeChoice(i) are called with the default RunnerName.  worldValid says
\* whether GetWorld()->GetGameInstance() gives a game instance.
InkChoiceInfo(Text, OriginalInkChoiceIndex, OutputPinName) ==
    [Text |-> Text, OriginalInkChoiceIndex |-> OriginalInkChoiceIndex,
     OutputPinName |-> OutputPinName]

GetChoicePinNameByIndex(VisualIndex) == <<"Choice", VisualIndex>>

\* The outcome of one node execution: the subsystem's state, the node's
\* AvailableChoices and Value, the output pins triggered in order, and whether
\* a choice was handed to the interpreter.
NodeRes(st, choices, value, pins, forwarded) ==
    [st |-> st, AvailableChoices |-> choices, ValueProp |-> value,
     triggered |-> pins, forwarded |-> forwarded]

\* ClearDynamicChoicePins: AvailableChoices.Empty().
ClearDynamicChoicePins(choices) == <<>>

\* FetchAndSetupDynamicChoicePins: clears the snapshot, then refills it from
\* the runner's current choices and triggers ChoicesAvailable, or triggers
\* Error.
FetchAndSetupDynamicChoicePins(st, choices, worldValid) ==
    LET cleared == ClearDynamicChoicePins(choices)
        Runner == GetRunner(st, MainStoryRunnerName)
        CurrentInkChoices == CurrentChoices(st, Runner)
    IN  IF ~worldValid THEN [AvailableChoices |-> cleared, triggered |-> <<"Error">>]
        ELSE IF ~IsStoryLoaded(st, MainStoryRunnerName)
             THEN [AvailableChoices |-> cleared, triggered |-> <<"Error">>]
        ELSE IF Runner = NULL
             THEN [AvailableChoices |-> cleared, triggered |-> <<"Error">>]
        ELSE IF CurrentInkChoices = <<>>
             THEN [AvailableChoices |-> cleared, triggered |-> <<"Error">>]
        ELSE [AvailableChoices |->
                  [i \in 1..Len(CurrentInkChoices) |->
                      InkChoiceInfo(CurrentInkChoices[i].text, CurrentInkChoices[i].index,
                                    GetChoicePinNameByIndex(i - 1))],
              triggered |-> <<"ChoicesAvailable">>]

\* What the choice node reads where it tests the call of MakeChoice: whether
\* the choice was made.
MakeChoiceReported(st, r) == r.st # st

\* ExecuteInput(ConfirmSelection): the selected index must be the original
\* index of an entry of AvailableChoices; then MakeChoice is called.
\* AvailableChoices is not written.
ConfirmSelection(st, choices, ChoiceIdxToMake, worldValid) ==
    LET fail == NodeRes(st, choices, <<>>, <<"Error">>, FALSE)
        bFoundChoice == \E k \in 1..Len(choices) :
                            choices[k].OriginalInkChoiceIndex = ChoiceIdxToMake
        r == MakeChoice(st, ChoiceIdxToMake, MainStoryRunnerName, 0)
    IN  IF ~worldValid THEN fail
        ELSE IF ~IsStoryLoaded(st, MainStoryRunnerName)
                    \/ GetRunner(st, MainStoryRunnerName) = NULL
             THEN fail
        ELSE IF ~bFoundChoice \/ ChoiceIdxToMake < 0 THEN fail
        ELSE IF MakeChoiceReported(st, r)
             THEN NodeRes(r.st, choices, <<>>, <<"ChoiceMade">>, r.forwarded)
             ELSE NodeRes(r.st, choices, <<>>, <<"Error">>, r.forwarded)

\* UFlowInkChoiceNode::ExecuteInput.  On the default input pin the snapshot is
\* fetched, and ChoicesAvailable is triggered once more when it is not empty.
ChoiceNodeExecuteInput(st, choices, PinName, SelectedChoiceOriginalIndex, worldValid) ==
    IF PinName = "In"
    THEN LET f == FetchAndSetupDynamicChoicePins(st, choices, worldValid)
         IN NodeRes(st, f.AvailableChoices, <<>>,
                    f.triggered \o (IF f.AvailableChoices # <<>>
                                    THEN <<"ChoicesAvailable">> ELSE <<>>),
                    FALSE)
    ELSE IF PinName = "ConfirmSelection"
    THEN ConfirmSelection(st, choices, SelectedChoiceOriginalIndex, worldValid)
    ELSE NodeRes(st, choices, <<>>, <<>>, FALSE)

\* EFlowInkVariableType and the ink value type each names.
VariableTypes == {"Bool", "Int", "Float", "String"}
InkTypeOf(VariableType) == IF VariableType = "Int" THEN "Int32" ELSE VariableType

\* The default written to Value when Get fails: false, 0, 0.0f, FString().
TypeDefault(VariableType) ==
    CASE VariableType = "Bool" -> BoolVal(FALSE)
      [] VariableType = "Int" -> IntVal(0)
      [] VariableType = "Float" -> FloatVal(0)
      [] OTHER -> StrVal(<<>>)

\* static_cast<int32>(float) drops the fraction; static_cast<float>(int32).
StaticCastInt32(micro) ==
    IF micro >= 0 THEN micro \div 1000000 ELSE 0 - ((0 - micro) \div 1000000)
StaticCastFloat(i) == i * 1000000

\* Mutation of PropertyGet: a stored value of another type counts as matched,
\* with the default as the value.
PropertyGet_MismatchSucceeds(InkValue, VariableType) ==
    CASE VariableType = "Bool" ->
            IF InkValue.type = "Bool" THEN [Value |-> InkValue, ok |-> TRUE]
            ELSE [Value |-> TypeDefault(VariableType), ok |-> TRUE]
      [] VariableType = "Int" ->
            IF InkValue.type = "Int32" THEN [Value |-> InkValue, ok |-> TRUE]
            ELSE IF InkValue.type = "Float"
                 THEN [Value |-> IntVal(StaticCastInt32(InkValue.i)), ok |-> TRUE]
            ELSE [Value |-> TypeDefault(VariableType), ok |-> TRUE]
      [] VariableType = "Float" ->
            IF InkValue.type = "Float" THEN [Value |-> InkValue, ok |-> TRUE]
            ELSE IF InkValue.type = "Int32"
                 THEN [Value |-> FloatVal(StaticCastFloat(InkValue.i)), ok |-> TRUE]
            ELSE [Value |-> TypeDefault(VariableType), ok |-> TRUE]
      [] OTHER ->
            IF InkValue.type = "String" THEN [Value |-> InkValue, ok |-> TRUE]
            ELSE [Value |-> StrVal(ConvertInkValueToString(InkValue)), ok |-> TRUE]

\* The switch of the Get branch on a variable that exists: the value for the
\* Value property and bTypeMatchedOrConverted.
PropertyGet(InkValue, VariableType) ==
    CASE VariableType = "Bool" ->
            IF InkValue.type = "Bool" THEN [Value |-> InkValue, ok |-> TRUE]
            ELSE [Value |-> TypeDefault(VariableType), ok |-> FALSE]
      [] VariableType = "Int" ->
            IF InkValue.type = "Int32" THEN [Value |-> InkValue, ok |-> TRUE]
            ELSE IF InkValue.type = "Float"
                 THEN [Value |-> IntVal(StaticCastInt32(InkValue.i)), ok |-> TRUE]
            ELSE [Value |-> TypeDefault(VariableType), ok |-> FALSE]
      [] VariableType = "Float" ->
            IF InkValue.type = "Float" THEN [Value |-> InkValue, ok |-> TRUE]
            ELSE IF InkValue.type = "Int32"
                 THEN [Value |-> FloatVal(StaticCastFloat(InkValue.i)), ok |-> TRUE]
            ELSE [Value |-> TypeDefault(VariableType), ok |-> FALSE]
      [] OTHER ->
            IF InkValue.type = "String" THEN [Value |-> InkValue, ok |-> TRUE]
            ELSE [Value |-> StrVal(ConvertInkValueToString(InkValue)), ok |-> TRUE]

\* UFlowInkPropertyNode::ExecuteInput.  value is the Value property as the
\* node finds it; for Set the graph has written the value to store there.
PropertyNames == VarInputs \cup {"None"}
Operations == {"Get", "Set"}

PropertyNodeExecuteInput(st, value, PropertyName, Operation, VariableType, worldValid) ==
    LET fail == NodeRes(st, <<>>, value, <<"Error">>, FALSE)
        Runner == GetRunner(st, MainStoryRunnerName)
        Globals == st.runnerHeap[Runner].globals
    IN  IF PropertyName = "None" THEN fail
        ELSE IF ~worldValid THEN fail
        ELSE IF ~IsStoryLoaded(st, MainStoryRunnerName) THEN fail
        ELSE IF Runner = NULL THEN fail
        ELSE IF Globals = NULL THEN fail
        ELSE IF Operation = "Get"
             THEN IF PropertyName \in VarNames
                  THEN LET g == PropertyGet(st.globalsHeap[Globals].vars[PropertyName],
                                            VariableType)
                       IN NodeRes(st, <<>>, g.Value,
                                  IF g.ok THEN <<"Out">> ELSE <<"Error">>, FALSE)
                  ELSE NodeRes(st, <<>>, TypeDefault(VariableType), <<"Error">>, FALSE)
             ELSE LET sv == set_var(st, Globals, PropertyName, value)
                  IN NodeRes(sv.st, <<>>, value,
                             IF sv.ok THEN <<"Out">> ELSE <<"Error">>, FALSE)

\* ------------------------------------------ specification of the flow nodes
\* One choice node and one property node driven by a flow graph, next to a
\* host that loads, releases, advances and assigns the main runner.
FlowAssets == {"chained"} \cup ProgIds \cup TypedProgIds

FlowStrings == {<<"5", ".", "5">>}

\* The values a graph writes to the Value property before a Set.
SetInputs == {BoolVal(TRUE), IntVal(5), FloatVal(2500000), StrVal(<<"a">>)}

ChoiceNodeCall(PinName, SelectedChoiceOriginalIndex, worldValid) ==
    LET r == ChoiceNodeExecuteInput(Cur, AvailableChoices, PinName,
                                    SelectedChoiceOriginalIndex, worldValid)
    IN /\ InstallMembers(r.st)
       /\ AvailableChoices' = r.AvailableChoices
       /\ triggered' = r.triggered
       /\ last' = [NoResult EXCEPT !.op = PinName, !.name = MainStoryRunnerName,
                                   !.ok = r.triggered = <<"ChoiceMade">>,
                                   !.note = IF r.forwarded THEN "forwarded" ELSE ""]
       /\ UNCHANGED ValueProp
       /\ UNCHANGED codecVars
       /\ UNCHANGED nodeVars

PropertyNodeCall(PropertyName, Operation, VariableType, In, worldValid) ==
    LET value == IF Operation = "Set" THEN In ELSE ValueProp
        r == PropertyNodeExecuteInput(Cur, value, PropertyName, Operation,
                                      VariableType, worldValid)
    IN /\ InstallMembers(r.st)
       /\ ValueProp' = r.ValueProp
       /\ triggered' = r.triggered
       /\ last' = [NoResult EXCEPT !.op = "PropertyNode", !.name = PropertyName,
                                   !.ok = r.triggered = <<"Out">>,
                                   !.note = Operation]
       /\ UNCHANGED AvailableChoices
       /\ UNCHANGED codecVars
       /\ UNCHANGED nodeVars

FlowInit == Init

FlowNext ==
    \/ \E a \in FlowAssets : LoadStoryForRunnerCall(a, MainStoryRunnerName, "none")
    \/ ReleaseRunnerResourcesCall(MainStoryRunnerName)
    \/ GetCurrentTextCall(MainStoryRunnerName, FALSE, 0)
    \/ \E v \in VarInputs, x \in FlowStrings :
            SetVariableCall(v, x, MainStoryRunnerName, FALSE, 0)
    \/ \E w \in BOOLEAN : ChoiceNodeCall("In", 0 - 1, w)
    \/ \E i \in ChoiceInputs, w \in BOOLEAN : ChoiceNodeCall("ConfirmSelection", i, w)
    \/ \E n \in PropertyNames, o \in Operations, T \in VariableTypes, w \in BOOLEAN :
          \E v \in {x \in SetInputs : x.type = InkTypeOf(T)} :
            PropertyNodeCall(n, o, T, v, w)

FlowSpec == FlowInit /\ [][FlowNext]_vars

\* --------------------------------------------------------- observation node
\* The value LastKnownValue takes when the variable is reported not found.
NotFoundMarker == <<"[", "N", "o", "t", "F", "o", "u", "n", "d", "]">>

ObsRes(nd, pins) == [nd |-> nd, triggered |-> pins]

\* FTimerManager::SetTimer(PollingTimerHandle, ...): a handle that refers to
\* a timer has that timer replaced, any other handle gets a new timer.
SetPollingTimer(nd) ==
    [nd EXCEPT !.timers = IF nd.PollingTimerHandle THEN @ ELSE @ + 1,
               !.PollingTimerHandle = TRUE]

\* StopPolling: the timer is cleared if there is a world and the handle is
\* valid; the handle is invalidated in any case.
StopPolling(nd) ==
    [nd EXCEPT !.timers = IF nd.hasWorld /\ nd.PollingTimerHandle THEN @ - 1 ELSE @,
               !.PollingTimerHandle = FALSE,
               !.RemainingPollingTime = 0]

\* Mutation of StartPolling: the timer is set without looking at the handle.
StartPolling_NoHandleTest(nd, st) ==
    IF nd.InkVariableName = "" THEN ObsRes(nd, <<"Error">>)
    ELSE IF nd.PollingInterval <= 0 THEN ObsRes(nd, <<"Error">>)
    ELSE IF ~nd.hasWorld THEN ObsRes(nd, <<"Error">>)
    ELSE IF ~IsStoryLoaded(st, MainStoryRunnerName) THEN ObsRes(nd, <<"Error">>)
    ELSE LET g == GetVariableValueAsString(st, nd.InkVariableName, FALSE, 0)
             fetched == [nd EXCEPT !.LastKnownValue = g.value]
         IN ObsRes([fetched EXCEPT !.timers = @ + 1, !.PollingTimerHandle = TRUE], <<>>)

\* StartPolling: after the guards the initial value is fetched and the timer
\* is started unless the handle is valid.
StartPolling(nd, st) ==
    IF nd.InkVariableName = "" THEN ObsRes(nd, <<"Error">>)
    ELSE IF nd.PollingInterval <= 0 THEN ObsRes(nd, <<"Error">>)
    ELSE IF ~nd.hasWorld THEN ObsRes(nd, <<"Error">>)
    ELSE IF ~IsStoryLoaded(st, MainStoryRunnerName) THEN ObsRes(nd, <<"Error">>)
    ELSE LET g == GetVariableValueAsString(st, nd.InkVariableName, FALSE, 0)
             fetched == [nd EXCEPT !.LastKnownValue = g.value]
         IN IF ~fetched.PollingTimerHandle
            THEN ObsRes(SetPollingTimer(fetched), <<>>)
            ELSE ObsRes(fetched, <<>>)

\* The change PollInkVariable and OnLoad report: LastKnownValue and the
\* NewValue property take the value, Changed is triggered.
ReportChanged(nd, value) ==
    ObsRes([nd EXCEPT !.LastKnownValue = value, !.NewValue = value], <<"Changed">>)

\* PollInkVariable, the timer's callback.
PollInkVariable(nd, st) ==
    IF nd.InkVariableName = "" \/ ~nd.active THEN ObsRes(StopPolling(nd), <<>>)
    ELSE IF ~nd.hasWorld \/ ~IsStoryLoaded(st, MainStoryRunnerName) THEN ObsRes(nd, <<>>)
    ELSE LET g == GetVariableValueAsString(st, nd.InkVariableName, FALSE, 0)
         IN IF ~g.bFound
            THEN IF nd.LastKnownValue # <<>> \/ nd.LastKnownValue # NotFoundMarker
                 THEN ReportChanged(nd, NotFoundMarker)
                 ELSE ObsRes(nd, <<>>)
            ELSE IF g.value # nd.LastKnownValue
                 THEN ReportChanged(nd, g.value)
                 ELSE ObsRes(nd, <<>>)

\* UFlowInkObservationNode::ExecuteInput
ObsExecuteInput(nd, st, PinName) ==
    IF PinName = "In" THEN StartPolling(nd, st)
    ELSE IF PinName = "Deactivate" THEN ObsRes(StopPolling(nd), <<>>)
    ELSE ObsRes(nd, <<>>)

\* UFlowNode::TriggerInput of the engine: a node that is not active is
\* activated (OnActivate, which starts polling) before the input is executed.
ObsTriggerInput(nd, st, PinName) ==
    LET a == IF nd.active THEN ObsRes(nd, <<>>)
             ELSE StartPolling([nd EXCEPT !.active = TRUE], st)
        e == ObsExecuteInput(a.nd, st, PinName)
    IN ObsRes(e.nd, a.triggered \o e.triggered)

\* OnDeactivate and Cleanup: the node is no longer active and stops polling.
ObsOnDeactivate(nd) == StopPolling([nd EXCEPT !.active = FALSE])

\* OnSave: the time left on the timer, 0 without world or valid handle.
ObsOnSave(nd, remaining) ==
    [nd EXCEPT !.RemainingPollingTime =
                    IF nd.hasWorld /\ nd.PollingTimerHandle THEN remaining ELSE 0]

\* OnLoad: with time left and a variable name the value is compared once and
\* the timer is set again; the time left is cleared in any case.
ObsOnLoad(nd, st) ==
    LET done(r) == ObsRes([r.nd EXCEPT !.RemainingPollingTime = 0], r.triggered)
        g == GetVariableValueAsString(st, nd.InkVariableName, FALSE, 0)
        checked ==
            IF ~IsStoryLoaded(st, MainStoryRunnerName) THEN ObsRes(nd, <<>>)
            ELSE IF g.bFound /\ g.value # nd.LastKnownValue
                 THEN ReportChanged(nd, g.value)
            ELSE IF ~g.bFound /\ (nd.LastKnownValue = <<>>
                                    \/ nd.LastKnownValue # NotFoundMarker)
                 THEN ReportChanged(nd, NotFoundMarker)
            ELSE ObsRes(nd, <<>>)
    IN  IF nd.RemainingPollingTime > 0 /\ nd.InkVariableName # "" /\ nd.hasWorld
        THEN done(ObsRes(SetPollingTimer(checked.nd), checked.triggered))
        ELSE done(ObsRes(nd, <<>>))

\* ---------------------------------- specification of the observation node
\* One observation node on the main runner, next to a host that loads,
\* releases and assigns the main runner, and a world whose timer manager
\* fires the node's timers while the node has a world.
ObsAssets == {"typedInt", "typedString"}
ObsStrings == {<<"5">>, <<"a">>}
ObsVariableNames == {""} \cup VarInputs
ObsIntervals == {0, 5}

ObsInstall(r, op) ==
    /\ obsNode' = r.nd
    /\ triggered' = r.triggered
    /\ last' = [NoResult EXCEPT !.op = op, !.name = MainStoryRunnerName,
                                !.ok = r.triggered # <<>>]
    /\ UNCHANGED <<LoadedStories, GlobalVariables, ActiveRunners, CurrentStory,
                   MainRunner, storyHeap, globalsHeap, runnerHeap>>
    /\ UNCHANGED <<AvailableChoices, ValueProp, qte, qteHistory>>
    /\ UNCHANGED codecVars

ObsTriggerInputCall(PinName) == ObsInstall(ObsTriggerInput(obsNode, Cur, PinName), PinName)

ObsOnDeactivateCall == ObsInstall(ObsRes(ObsOnDeactivate(obsNode), <<>>), "OnDeactivate")

ObsCleanupCall == ObsInstall(ObsRes(ObsOnDeactivate(obsNode), <<>>), "Cleanup")

ObsOnSaveCall(remaining) == ObsInstall(ObsRes(ObsOnSave(obsNode, remaining), <<>>), "OnSave")

\* OnLoad runs after the saved properties were read back: the time left is
\* the one of the save that is loaded.
ObsOnLoadCall(saved) ==
    ObsInstall(ObsOnLoad([obsNode EXCEPT !.RemainingPollingTime = saved], Cur), "OnLoad")

\* A timer of the node comes due in the world's timer manager.
PollingTimerFires ==
    /\ obsNode.hasWorld
    /\ obsNode.timers > 0
    /\ ObsInstall(PollInkVariable(obsNode, Cur), "PollInkVariable")

\* The node loses its world for good.
ObsWorldLost ==
    /\ obsNode.hasWorld
    /\ ObsInstall(ObsRes([obsNode EXCEPT !.hasWorld = FALSE], <<>>), "WorldLost")

ObsInit ==
    /\ LoadedStories = [n \in Names |-> NULL]
    /\ GlobalVariables = [n \in Names |-> NULL]
    /\ ActiveRunners = [n \in Names |-> NULL]
    /\ CurrentStory = NULL
    /\ MainRunner = NULL
    /\ storyHeap = [h \in Handles |-> DeadStory]
    /\ globalsHeap = [h \in Handles |-> DeadGlobals]
    /\ runnerHeap = [h \in Handles |-> DeadRunner]
    /\ last = NoResult
    /\ hostValue = <<>>
    /\ atoiSaturates = FALSE
    /\ inferred = StrVal(<<>>)
    /\ AvailableChoices = <<>>
    /\ ValueProp = StrVal(<<>>)
    /\ triggered = <<>>
    /\ \E n \in ObsVariableNames, i \in ObsIntervals : obsNode = ObservationNode(n, i)
    /\ qte = QTESubsystem0
    /\ qteHistory = NoHistory

ObsNext ==
    \/ \E a \in ObsAssets : LoadStoryForRunnerCall(a, MainStoryRunnerName, "none")
    \/ ReleaseRunnerResourcesCall(MainStoryRunnerName)
    \/ \E v \in VarNames, x \in ObsStrings :
            SetVariableCall(v, x, MainStoryRunnerName, FALSE, 0)
    \/ \E p \in {"In", "Deactivate"} : ObsTriggerInputCall(p)
    \/ ObsOnDeactivateCall
    \/ ObsCleanupCall
    \/ \E r \in {0, 1} : ObsOnSaveCall(r)
    \/ \E r \in {0, 1} : ObsOnLoadCall(r)
    \/ PollingTimerFires
    \/ ObsWorldLost

ObsSpec == ObsInit /\ [][ObsNext]_vars

\* ------------------------------------------------------------ QTE subsystem
\* UQTEDataAsset; SuccessThreshold is kept in tenths (20 is 2.0f).
UQTEDataAsset(Type, SuccessThreshold, RequiredAction, FailAction, QTEWidgetClass) ==
    [Type |-> Type, SuccessThreshold |-> SuccessThreshold,
     RequiredAction |-> RequiredAction, FailAction |-> FailAction,
     QTEWidgetClass |-> QTEWidgetClass]

QTEAssetNames == {"press", "mash", "hold", "noAction"}

QTEData(a) ==
    CASE a = "press"    -> UQTEDataAsset("TimedPress", 50, TRUE, FALSE, FALSE)
      [] a = "mash"     -> UQTEDataAsset("Mash", 20, TRUE, TRUE, TRUE)
      [] a = "hold"     -> UQTEDataAsset("Hold", 20, TRUE, TRUE, FALSE)
      [] a = "noAction" -> UQTEDataAsset("TimedPress", 50, FALSE, FALSE, FALSE)

InfoIsValid(info) == info.QTEData # NoAsset /\ info.InstanceID # NAME_None

InfoGetType(info) == IF info.QTEData # NoAsset THEN QTEData(info.QTEData).Type ELSE "TimedPress"

InfoGetSuccessThreshold(info) ==
    IF info.QTEData # NoAsset THEN QTEData(info.QTEData).SuccessThreshold ELSE 0

\* static_cast<int32> of a float kept in tenths: truncation.
ThresholdToInt32(t) == t \div 10

\* Delegate.Broadcast(...) for the QTE of the given serial.
Broadcast(q, ev, id, serial) ==
    [q EXCEPT !.events = Append(@, [ev |-> ev, id |-> id, serial |-> serial])]

\* The bindings StartQTE makes for an asset.
BindingsFor(a, id) ==
    (IF QTEData(a).Type = "Hold"
     THEN {[event |-> e, id |-> id] : e \in {"Started", "Completed", "Canceled"}}
     ELSE {[event |-> "Triggered", id |-> id]})
    \cup (IF QTEData(a).FailAction THEN {[event |-> "FailTriggered", id |-> id]} ELSE {})

\* Mutation of EndQTE: the QTE stays active after its outcome.
EndQTE_StaysActive(q, bSuccess, worldValid, inputReady, componentOk) ==
    IF ~q.bIsQTEActive THEN q
    ELSE
    LET EndedInstanceID == q.ActiveQTEInfo.InstanceID
        q1 == IF worldValid THEN [q EXCEPT !.QTEDurationTimerHandle = FALSE] ELSE q
        q2 == IF ~q1.InputSubsystem THEN [q1 EXCEPT !.InputSubsystem = inputReady] ELSE q1
        q3 == IF q2.InputSubsystem
              THEN [q2 EXCEPT !.bound = IF componentOk THEN @ ELSE @ \cup q2.InputBindingHandles,
                              !.InputBindingHandles = {},
                              !.mappingContext = FALSE]
              ELSE q2
        q4 == [q3 EXCEPT !.MashCount = 0, !.HoldStartTime = 0,
                         !.ActiveQTEWidgets = @ \ {EndedInstanceID}]
    IN Broadcast(q4, IF bSuccess THEN "Succeeded" ELSE "Failed", EndedInstanceID, q.serial)

\* EndQTE up to and including its broadcast, the listeners returning at once.
EndQTE(q, bSuccess, worldValid, inputReady, componentOk) ==
    IF ~q.bIsQTEActive THEN q
    ELSE
    LET EndedInstanceID == q.ActiveQTEInfo.InstanceID
        q1 == IF worldValid THEN [q EXCEPT !.QTEDurationTimerHandle = FALSE] ELSE q
        q2 == IF ~q1.InputSubsystem THEN [q1 EXCEPT !.InputSubsystem = inputReady] ELSE q1
        q3 == IF q2.InputSubsystem
              THEN [q2 EXCEPT !.bound = IF componentOk THEN @ ELSE @ \cup q2.InputBindingHandles,
                              !.InputBindingHandles = {},
                              !.mappingContext = FALSE]
              ELSE q2
        q4 == [q3 EXCEPT !.bIsQTEActive = FALSE, !.ActiveQTEInfo = NoQTEInfo,
                         !.MashCount = 0, !.HoldStartTime = 0,
                         !.ActiveQTEWidgets = @ \ {EndedInstanceID}]
    IN Broadcast(q4, IF bSuccess THEN "Succeeded" ELSE "Failed", EndedInstanceID, q.serial)

\* Mutation of StartQTE: a QTE is started while another one is active.
StartQTE_NoActiveTest(q, QTEDataAsset, OptionalInstanceID, inputReady, componentOk, worldValid) ==
    IF QTEDataAsset = NoAsset THEN [q EXCEPT !.ret = NAME_None]
    ELSE IF ~QTEData(QTEDataAsset).RequiredAction THEN [q EXCEPT !.ret = NAME_None]
    ELSE IF ~q.QTE_InputMappingContext THEN [q EXCEPT !.ret = NAME_None]
    ELSE IF ~inputReady THEN [q EXCEPT !.InputSubsystem = FALSE, !.ret = NAME_None]
    ELSE
    LET counter == IF OptionalInstanceID = NAME_None THEN q.UniqueIDCounter + 1
                   ELSE q.UniqueIDCounter
        InstanceID == IF OptionalInstanceID = NAME_None THEN <<"QTEInst_", counter>>
                      ELSE OptionalInstanceID
        q1 == [q EXCEPT !.InputSubsystem = TRUE, !.UniqueIDCounter = counter,
                        !.ActiveQTEInfo = ActiveQTEInfoOf(QTEDataAsset, InstanceID),
                        !.bIsQTEActive = TRUE, !.MashCount = 0, !.HoldStartTime = 0,
                        !.InputBindingHandles = {}, !.mappingContext = TRUE,
                        !.serial = @ + 1]
    IN IF ~componentOk
       THEN [q1 EXCEPT !.mappingContext = FALSE, !.bIsQTEActive = FALSE,
                       !.ret = NAME_None]
       ELSE LET q2 == [q1 EXCEPT !.InputBindingHandles = BindingsFor(QTEDataAsset, InstanceID)]
            IN IF ~worldValid
               THEN [EndQTE(q2, FALSE, worldValid, inputReady, componentOk)
                        EXCEPT !.ret = NAME_None]
               ELSE LET q3 == Broadcast([q2 EXCEPT !.QTEDurationTimerHandle = TRUE],
                                        "Started", InstanceID, q2.serial)
                    IN [q3 EXCEPT !.ActiveQTEWidgets =
                                        IF QTEData(QTEDataAsset).QTEWidgetClass
                                        THEN @ \cup {InstanceID} ELSE @,
                                  !.ret = q3.ActiveQTEInfo.InstanceID]

\* UQTESubsystem::StartQTE. The three queries of the engine are inputs:
\* inputReady (GetEnhancedInputSubsystem returns a subsystem), componentOk
\* (the player's input component is an enhanced one), worldValid (GetWorld).
StartQTE(q, QTEDataAsset, OptionalInstanceID, inputReady, componentOk, worldValid) ==
    IF q.bIsQTEActive THEN [q EXCEPT !.ret = NAME_None]
    ELSE IF QTEDataAsset = NoAsset THEN [q EXCEPT !.ret = NAME_None]
    ELSE IF ~QTEData(QTEDataAsset).RequiredAction THEN [q EXCEPT !.ret = NAME_None]
    ELSE IF ~q.QTE_InputMappingContext THEN [q EXCEPT !.ret = NAME_None]
    ELSE IF ~inputReady THEN [q EXCEPT !.InputSubsystem = FALSE, !.ret = NAME_None]
    ELSE
    LET counter == IF OptionalInstanceID = NAME_None THEN q.UniqueIDCounter + 1
                   ELSE q.UniqueIDCounter
        InstanceID == IF OptionalInstanceID = NAME_None THEN <<"QTEInst_", counter>>
                      ELSE OptionalInstanceID
        q1 == [q EXCEPT !.InputSubsystem = TRUE, !.UniqueIDCounter = counter,
                        !.ActiveQTEInfo = ActiveQTEInfoOf(QTEDataAsset, InstanceID),
                        !.bIsQTEActive = TRUE, !.MashCount = 0, !.HoldStartTime = 0,
                        !.InputBindingHandles = {}, !.mappingContext = TRUE,
                        !.serial = @ + 1]
    IN IF ~componentOk
       THEN [q1 EXCEPT !.mappingContext = FALSE, !.bIsQTEActive = FALSE,
                       !.ret = NAME_None]
       ELSE LET q2 == [q1 EXCEPT !.InputBindingHandles = BindingsFor(QTEDataAsset, InstanceID)]
            IN IF ~worldValid
               THEN [EndQTE(q2, FALSE, worldValid, inputReady, componentOk)
                        EXCEPT !.ret = NAME_None]
               ELSE LET q3 == Broadcast([q2 EXCEPT !.QTEDurationTimerHandle = TRUE],
                                        "Started", InstanceID, q2.serial)
                    IN [q3 EXCEPT !.ActiveQTEWidgets =
                                        IF QTEData(QTEDataAsset).QTEWidgetClass
                                        THEN @ \cup {InstanceID} ELSE @,
                                  !.ret = q3.ActiveQTEInfo.InstanceID]

\* Mutation of EndQTEHeard: the outcome is broadcast, and heard by the
\* listener, before the state of the ended QTE is cleared.
EndQTEHeard_BroadcastFirst(q, bSuccess, worldValid, inputReady, componentOk, listener) ==
    IF q.bIsQTEActive /\ listener # NoListener
    THEN LET n == StartQTE(q, listener, NAME_None, inputReady, componentOk, worldValid)
         IN EndQTE([n EXCEPT !.heard = n.ret, !.ret = NAME_None], bSuccess, worldValid, inputReady, componentOk)
    ELSE EndQTE(q, bSuccess, worldValid, inputReady, componentOk)

\* EndQTE with a listener of the outcome delegates that either returns at
\* once (NoListener) or calls StartQTE for an asset from inside the broadcast;
\* heard is what that call returned.
EndQTEHeard(q, bSuccess, worldValid, inputReady, componentOk, listener) ==
    LET e == EndQTE(q, bSuccess, worldValid, inputReady, componentOk)
    IN IF q.bIsQTEActive /\ listener # NoListener
       THEN LET n == StartQTE(e, listener, NAME_None, inputReady, componentOk, worldValid)
            IN [n EXCEPT !.heard = n.ret, !.ret = NAME_None]
       ELSE e

\* UQTESubsystem::Deinitialize; the listeners of a game instance that shuts
\* down start nothing.
QTEDeinitialize(q, worldValid, inputReady, componentOk) ==
    IF q.bIsQTEActive
    THEN EndQTE(q, FALSE, worldValid, inputReady, componentOk)
    ELSE q

\* UQTESubsystem::CancelActiveQTE; the return value is kept as an FName.
CancelActiveQTE(q, worldValid, inputReady, componentOk, listener) ==
    IF q.bIsQTEActive
    THEN [EndQTEHeard(q, FALSE, worldValid, inputReady, componentOk, listener)
            EXCEPT !.ret = <<"true", 0>>]
    ELSE [q EXCEPT !.ret = <<"false", 0>>]

\* Mutation of TimeoutQTE: the timer ends nothing.
TimeoutQTE_EndsNothing(q, worldValid, inputReady, componentOk, listener) == q

\* UQTESubsystem::TimeoutQTE
TimeoutQTE(q, worldValid, inputReady, componentOk, listener) ==
    IF ~q.bIsQTEActive THEN q
    ELSE EndQTEHeard(q, FALSE, worldValid, inputReady, componentOk, listener)

\* The guard every input handler starts with.
HandlerRejects(q, InstanceID) ==
    \/ ~q.bIsQTEActive
    \/ ~InfoIsValid(q.ActiveQTEInfo)
    \/ q.ActiveQTEInfo.InstanceID # InstanceID

\* Mutation of HandleQTEInputTriggered: the mash count has to exceed the
\* threshold.
HandleQTEInputTriggered_Exceeds(q, InstanceID, worldValid, inputReady, componentOk, listener) ==
    IF HandlerRejects(q, InstanceID) THEN q
    ELSE IF InfoGetType(q.ActiveQTEInfo) = "TimedPress"
    THEN EndQTEHeard(q, TRUE, worldValid, inputReady, componentOk, listener)
    ELSE IF InfoGetType(q.ActiveQTEInfo) = "Mash"
    THEN LET q1 == Broadcast([q EXCEPT !.MashCount = @ + 1], "Progress", InstanceID, q.serial)
         IN IF q1.MashCount > ThresholdToInt32(InfoGetSuccessThreshold(q1.ActiveQTEInfo))
            THEN EndQTEHeard(q1, TRUE, worldValid, inputReady, componentOk, listener)
            ELSE q1
    ELSE q

\* UQTESubsystem::HandleQTEInputTriggered
HandleQTEInputTriggered(q, InstanceID, worldValid, inputReady, componentOk, listener) ==
    IF HandlerRejects(q, InstanceID) THEN q
    ELSE IF InfoGetType(q.ActiveQTEInfo) = "TimedPress"
    THEN EndQTEHeard(q, TRUE, worldValid, inputReady, componentOk, listener)
    ELSE IF InfoGetType(q.ActiveQTEInfo) = "Mash"
    THEN LET q1 == Broadcast([q EXCEPT !.MashCount = @ + 1], "Progress", InstanceID, q.serial)
         IN IF q1.MashCount >= ThresholdToInt32(InfoGetSuccessThreshold(q1.ActiveQTEInfo))
            THEN EndQTEHeard(q1, TRUE, worldValid, inputReady, componentOk, listener)
            ELSE q1
    ELSE q

\* UQTESubsystem::HandleQTEInputStarted; the world's time is kept as 1.
HandleQTEInputStarted(q, InstanceID, worldValid, inputReady, componentOk, listener) ==
    IF HandlerRejects(q, InstanceID) THEN q
    ELSE IF InfoGetType(q.ActiveQTEInfo) = "Hold"
    THEN Broadcast([q EXCEPT !.HoldStartTime = IF worldValid THEN 1 ELSE 0],
                   "Progress", InstanceID, q.serial)
    ELSE q

\* UQTESubsystem::HandleQTEInputCompleted
HandleQTEInputCompleted(q, InstanceID, worldValid, inputReady, componentOk, listener) ==
    IF HandlerRejects(q, InstanceID) THEN q
    ELSE IF InfoGetType(q.ActiveQTEInfo) = "Hold"
    THEN EndQTEHeard(Broadcast(q, "Progress", InstanceID, q.serial), TRUE,
                     worldValid, inputReady, componentOk, listener)
    ELSE q

\* UQTESubsystem::HandleQTEInputCanceled
HandleQTEInputCanceled(q, InstanceID, worldValid, inputReady, componentOk, listener) ==
    IF HandlerRejects(q, InstanceID) THEN q
    ELSE IF InfoGetType(q.ActiveQTEInfo) = "Hold"
    THEN EndQTEHeard(IF q.HoldStartTime > 0 /\ worldValid
                     THEN Broadcast(q, "Progress", InstanceID, q.serial) ELSE q,
                     FALSE, worldValid, inputReady, componentOk, listener)
    ELSE q

\* Mutation of HandleQTEFailInputTriggered: the instance ID is not compared.
HandleQTEFailInputTriggered_AnyID(q, InstanceID, worldValid, inputReady, componentOk, listener) ==
    IF ~q.bIsQTEActive THEN q
    ELSE EndQTEHeard(q, FALSE, worldValid, inputReady, componentOk, listener)

\* UQTESubsystem::HandleQTEFailInputTriggered
HandleQTEFailInputTriggered(q, InstanceID, worldValid, inputReady, componentOk, listener) ==
    IF HandlerRejects(q, InstanceID) THEN q
    ELSE EndQTEHeard(q, FALSE, worldValid, inputReady, componentOk, listener)

\* The handler an input binding calls.
InputHandler(q, b, worldValid, inputReady, componentOk, listener) ==
    CASE b.event = "Triggered" ->
            HandleQTEInputTriggered(q, b.id, worldValid, inputReady, componentOk, listener)
      [] b.event = "Started" ->
            HandleQTEInputStarted(q, b.id, worldValid, inputReady, componentOk, listener)
      [] b.event = "Completed" ->
            HandleQTEInputCompleted(q, b.id, worldValid, inputReady, componentOk, listener)
      [] b.event = "Canceled" ->
            HandleQTEInputCanceled(q, b.id, worldValid, inputReady, componentOk, listener)
      [] b.event = "FailTriggered" ->
            HandleQTEFailInputTriggered(q, b.id, worldValid, inputReady, componentOk, listener)

\* ------------------------------------------- specification of the QTE subsystem
MaxStarts == 2

OptionalInstanceIDs == {NAME_None, <<"boss", 0>>}

\* What a listener of the outcome delegates may do: nothing, or start the
\* mash QTE.
Listeners(q) == {NoListener} \cup (IF q.serial < MaxStarts THEN {"mash"} ELSE {})

Outcomes == {"Succeeded", "Failed"}

\* The broadcasts of one call added to the history of the run: the QTEs
\* (serial and instance ID) for which OnQTEStarted was broadcast, those for
\* which an outcome was, the serials with a second outcome, and the serials
\* whose outcome came with no OnQTEStarted before it.
Recorded(history, events) ==
    LET idx == DOMAIN events
        outs == {i \in idx : events[i].ev \in Outcomes}
        starts == {i \in idx : events[i].ev = "Started"}
    IN [started |-> history.started \cup {<<events[i].serial, events[i].id>> : i \in starts},
        ended |-> history.ended \cup {<<events[i].serial, events[i].id>> : i \in outs},
        twice |-> history.twice
                    \cup {events[i].serial : i \in {j \in outs :
                            \/ \E e \in history.ended : e[1] = events[j].serial
                            \/ \E k \in outs : k < j /\ events[k].serial = events[j].serial}},
        unstarted |-> history.unstarted
                    \cup {events[i].serial : i \in {j \in outs :
                            /\ ~\E e \in history.started : e[1] = events[j].serial
                            /\ ~\E k \in starts : /\ k < j
                                                  /\ events[k].serial = events[j].serial}}]

\* The subsystem as a call finds it: nothing broadcast or returned yet.
Entered(q) == [q EXCEPT !.events = <<>>, !.ret = NAME_None, !.heard = NAME_None]

QteInstall(r, op) ==
    /\ qte.op # "Deinitialize"
    /\ qte' = [r EXCEPT !.op = op, !.wasActive = qte.bIsQTEActive]
    /\ qteHistory' = Recorded(qteHistory, r.events)
    /\ UNCHANGED <<LoadedStories, GlobalVariables, ActiveRunners, CurrentStory,
                   MainRunner, storyHeap, globalsHeap, runnerHeap, last>>
    /\ UNCHANGED codecVars
    /\ UNCHANGED flowVars
    /\ UNCHANGED obsNode

StartQTECall(QTEDataAsset, OptionalInstanceID, inputReady, componentOk, worldValid) ==
    /\ qte.serial < MaxStarts
    /\ QteInstall(StartQTE(Entered(qte), QTEDataAsset, OptionalInstanceID,
                           inputReady, componentOk, worldValid), "StartQTE")

CancelActiveQTECall(worldValid, inputReady, componentOk, listener) ==
    QteInstall(CancelActiveQTE(Entered(qte), worldValid, inputReady, componentOk, listener),
               "CancelActiveQTE")

QTEDeinitializeCall(worldValid, inputReady, componentOk) ==
    QteInstall(QTEDeinitialize(Entered(qte), worldValid, inputReady, componentOk),
               "Deinitialize")

\* The duration timer comes due: it is not looping, so it is gone when
\* TimeoutQTE runs.
QTEDurationTimerFires(worldValid, inputReady, componentOk, listener) ==
    /\ qte.QTEDurationTimerHandle
    /\ QteInstall(TimeoutQTE([Entered(qte) EXCEPT !.QTEDurationTimerHandle = FALSE],
                             worldValid, inputReady, componentOk, listener),
                  "TimeoutQTE")

\* A binding of the input component calls its handler.
InputCallback(b, worldValid, inputReady, componentOk, listener) ==
    /\ b \in qte.InputBindingHandles \cup qte.bound
    /\ QteInstall(InputHandler(Entered(qte), b, worldValid, inputReady, componentOk, listener),
                  b.event)

QteInit ==
    /\ LoadedStories = [n \in Names |-> NULL]
    /\ GlobalVariables = [n \in Names |-> NULL]
    /\ ActiveRunners = [n \in Names |-> NULL]
    /\ CurrentStory = NULL
    /\ MainRunner = NULL
    /\ storyHeap = [h \in Handles |-> DeadStory]
    /\ globalsHeap = [h \in Handles |-> DeadGlobals]
    /\ runnerHeap = [h \in Handles |-> DeadRunner]
    /\ last = NoResult
    /\ hostValue = <<>>
    /\ atoiSaturates = FALSE
    /\ inferred = StrVal(<<>>)
    /\ AvailableChoices = <<>>
    /\ ValueProp = StrVal(<<>>)
    /\ triggered = <<>>
    /\ obsNode = ObservationNode("gold", 5)
    /\ qte = QTESubsystem0
    /\ qteHistory = NoHistory

QteNext ==
    \/ \E a \in QTEAssetNames \cup {NoAsset}, o \in OptionalInstanceIDs, i, c, w \in BOOLEAN :
            StartQTECall(a, o, i, c, w)
    \/ \E w, i, c \in BOOLEAN, l \in Listeners(qte) : CancelActiveQTECall(w, i, c, l)
    \/ \E w, i, c \in BOOLEAN : QTEDeinitializeCall(w, i, c)
    \/ \E w, i, c \in BOOLEAN, l \in Listeners(qte) : QTEDurationTimerFires(w, i, c, l)
    \/ \E b \in qte.InputBindingHandles \cup qte.bound, w, i, c \in BOOLEAN,
          l \in Listeners(qte) : InputCallback(b, w, i, c, l)

QteSpec == QteInit /\ [][QteNext]_vars

\* The timer manager lets no timer wait for ever.
QteFairSpec ==
    QteSpec /\ WF_vars(\E w, i, c \in BOOLEAN, l \in Listeners(qte) :
                            QTEDurationTimerFires(w, i, c, l))

\* ================================================================== claims

\* The operations read and write the members of the subsystem and the
\* interpreter objects, never `last`.  GetVariable changes none of them and can
\* always be called, so every reachable valuation of the members is also
\* reached with last = [GetVariable, MainStory]: a formula that asks what an
\* operation would do from the current members is evaluated in those states,
\* once per valuation instead of once per value of `last`.
AtRest == last.op = "GetVariable" /\ last.name = MainStoryRunnerName

\* C1: between operations, for every runner name the three maps LoadedStories,
\* GlobalVariables and ActiveRunners either all hold a handle for the name or
\* none does, and a handle they hold is that of a live object: a partial
\* triple never exists.
C1_TripleComplete ==
    \A n \in Names :
        /\ (LoadedStories[n] # NULL) = (GlobalVariables[n] # NULL)
        /\ (GlobalVariables[n] # NULL) = (ActiveRunners[n] # NULL)
        /\ LoadedStories[n] # NULL => storyHeap[LoadedStories[n]].live
        /\ GlobalVariables[n] # NULL => globalsHeap[GlobalVariables[n]].live
        /\ ActiveRunners[n] # NULL => runnerHeap[ActiveRunners[n]].live

\* A load of a loaded name has just failed, while the other name stays loaded.
C1_Witness ==
    /\ last.op = "LoadStoryForRunner"
    /\ ~last.ok
    /\ last.wasLoaded
    /\ ~IsStoryLoaded(Cur, last.name)
    /\ \E n \in Names : n # last.name /\ IsStoryLoaded(Cur, n)

\* C2: when LoadStoryForRunner(P, N) has returned true, IsStoryLoaded(N) is
\* true immediately afterwards; after ReleaseRunnerResources(N),
\* IsStoryLoaded(N) is false.
C2_LoadedAfterLoad ==
    /\ (last.op = "LoadStoryForRunner" /\ last.ok) => IsStoryLoaded(Cur, last.name)
    /\ last.op = "ReleaseRunnerResources" => ~IsStoryLoaded(Cur, last.name)

\* A name that was already loaded has just been loaded again successfully.
C2_Witness ==
    /\ last.op = "LoadStoryForRunner"
    /\ last.ok
    /\ last.wasLoaded
    /\ IsStoryLoaded(Cur, last.name)

\* C3: whenever LoadStoryForRunner(P, N) has returned false, for whatever
\* reason, IsStoryLoaded(N) is false afterwards, also when N was loaded
\* before the call.
C3_FailedLoadUnbinds ==
    (last.op = "LoadStoryForRunner" /\ ~last.ok) => ~IsStoryLoaded(Cur, last.name)

\* C4: after a load of a name that was already loaded, every variable-changed
\* notification and every external-function event that GetCurrentText or
\* SetVariable emits comes from a registration made after that load.
C4_NoStaleRegistrationFires ==
    AtRest =>
        \A n \in Names :
            /\ \A t \in ThrowAts :
                  LET r == GetCurrentText(WithListener(Cur, TRUE), n, t)
                  IN \A k \in 1..Len(r.events) : ~r.events[k].regOld
            /\ \A v \in VarInputs, x \in HostStrings, t \in 0..1 :
                  LET r == SetVariable(WithListener(Cur, TRUE), v, x, n, t)
                  IN \A k \in 1..Len(r.events) : ~r.events[k].regOld

\* A name that was loaded and had observers or bindings has just been loaded
\* again.
C4_Witness ==
    /\ last.op = "LoadStoryForRunner"
    /\ last.ok
    /\ last.wasLoaded
    /\ last.hadRegs
    /\ IsStoryLoaded(Cur, last.name)

\* C5: MakeChoice(i, N) on a loaded runner is forwarded to the interpreter
\* exactly when i is the original index of one of the choices the runner
\* currently offers.
C5_ForwardedIffOriginalIndex ==
    \A n \in Names, i \in ChoiceInputs :
        IsStoryLoaded(Cur, n) =>
            (MakeChoice(Cur, i, n, 0).forwarded
                <=> ChooseAccepts(Cur, GetRunner(Cur, n), i))

\* C6: MakeChoice(i, N) on a loaded runner with i < 0, i >= the number of
\* choices, or with no choices pending changes nothing (cursor, pending
\* choices, variable store) and forwards nothing to the interpreter.
C6_OutOfRangeIsNoOp ==
    AtRest =>
        \A n \in Names, i \in ChoiceInputs, t \in 0..3 :
            (IsStoryLoaded(Cur, n) /\ (i < 0 \/ i >= num_choices(Cur, GetRunner(Cur, n)))) =>
                LET r == MakeChoice(Cur, i, n, t)
                IN r.st = Cur /\ ~r.forwarded

\* MakeChoice has just refused an index on a runner that offers choices.
C6_Witness ==
    /\ last.op = "MakeChoice"
    /\ last.note = "rejected"
    /\ IsStoryLoaded(Cur, last.name)
    /\ num_choices(Cur, GetRunner(Cur, last.name)) > 0

\* C7: for every name N with no loaded instance, GetCurrentText(N) returns the
\* empty string, GetCurrentChoices(N) the empty list, GetVariable(x, N) the
\* empty string, SetVariable(x, v, N) false and MakeChoice(i, N) does nothing;
\* none of these calls creates an instance for N or changes any other runner.
C7_UnloadedNameIsNeutral ==
    AtRest =>
        \A n \in Names :
            ~IsStoryLoaded(Cur, n) =>
                /\ \A t \in ThrowAts, l \in BOOLEAN :
                      LET r == GetCurrentText(WithListener(Cur, l), n, t)
                      IN r.retText = <<>> /\ r.events = <<>> /\ r.st = WithListener(Cur, l)
                /\ \A t \in ThrowAts :
                      LET r == GetCurrentChoices(Cur, n, t)
                      IN r.retChoices = <<>> /\ r.st = Cur
                /\ \A v \in VarInputs, t \in 0..1 :
                      LET r == GetVariable(Cur, v, n, t)
                      IN r.retText = <<>> /\ r.st = Cur
                /\ \A v \in VarInputs, x \in HostStrings, t \in 0..1, l \in BOOLEAN :
                      LET r == SetVariable(WithListener(Cur, l), v, x, n, t)
                      IN ~r.retBool /\ r.events = <<>> /\ r.st = WithListener(Cur, l)
                /\ \A i \in ChoiceInputs, t \in 0..3 :
                      LET r == MakeChoice(Cur, i, n, t)
                      IN ~r.forwarded /\ ~r.escaped /\ r.st = Cur

\* GetCurrentText has just been called on a name with no instance while the
\* other name is loaded and can continue.
C7_Witness ==
    /\ last.op = "GetCurrentText"
    /\ ~last.wasLoaded
    /\ ~IsStoryLoaded(Cur, last.name)
    /\ \E n \in Names : /\ n # last.name
                        /\ IsStoryLoaded(Cur, n)
                        /\ can_continue(Cur, GetRunner(Cur, n))

\* The phase of a loaded runner: Idle while it can continue, AwaitingChoice
\* when it cannot and offers choices, Ended when it cannot and offers none.
Phase(st, RunnerName) ==
    LET Runner == GetRunner(st, RunnerName)
    IN IF can_continue(st, Runner) THEN "Idle"
       ELSE IF num_choices(st, Runner) > 0 THEN "AwaitingChoice"
       ELSE "Ended"

\* The text of all the lines of a node of the program of a runner.
NodeText(st, RunnerName, node) ==
    LET lines == ProgramOf(st, GetRunner(st, RunnerName)).nodes[node].lines
    IN [k \in 1..Len(lines) |-> lines[k].text]

\* C8: a loaded runner follows the phase machine: GetCurrentText in Idle leaves
\* it in AwaitingChoice or Ended; MakeChoice with the original index of a
\* pending choice in AwaitingChoice returns it to Idle and the next
\* GetCurrentText returns the text of the chosen branch; GetCurrentText in
\* AwaitingChoice or Ended and MakeChoice in Idle or Ended keep the phase.
C8_PhaseMachine ==
    \A n \in Names :
        IsStoryLoaded(Cur, n) =>
            LET Runner == GetRunner(Cur, n)
                text == GetCurrentText(Cur, n, 0)
            IN /\ Phase(Cur, n) = "Idle" =>
                    Phase(text.st, n) \in {"AwaitingChoice", "Ended"}
               /\ Phase(Cur, n) # "Idle" => Phase(text.st, n) = Phase(Cur, n)
               /\ Phase(Cur, n) = "AwaitingChoice" =>
                    \A k \in 1..num_choices(Cur, Runner) :
                        LET c == CurrentChoices(Cur, Runner)[k]
                            r == MakeChoice(Cur, c.index, n, 0)
                        IN /\ Phase(r.st, n) = "Idle"
                           /\ GetCurrentText(r.st, n, 0).retText = NodeText(Cur, n, c.target)
               /\ Phase(Cur, n) # "AwaitingChoice" =>
                    \A i \in ChoiceInputs :
                        Phase(MakeChoice(Cur, i, n, 0).st, n) = Phase(Cur, n)

\* C9: with the interpreter able to raise an error on any of its calls, no
\* operation of the subsystem lets the error escape.
C9_NoErrorEscapes ==
    \A n \in Names :
        /\ \A i \in ChoiceInputs, t \in 0..3 : ~MakeChoice(Cur, i, n, t).escaped
        /\ \A t \in ThrowAts, l \in BOOLEAN :
              ~GetCurrentText(WithListener(Cur, l), n, t).escaped
        /\ \A t \in ThrowAts : ~GetCurrentChoices(Cur, n, t).escaped
        /\ \A v \in VarInputs, t \in 0..1 :
              /\ ~ObserveVariable(Cur, v, n, t).escaped
              /\ ~GetVariable(Cur, v, n, t).escaped
              /\ \A x \in HostStrings : ~SetVariable(Cur, v, x, n, t).escaped
        /\ \A f \in FunctionNames, c \in Channels, w \in BOOLEAN, t \in 0..1 :
              ~BindExternalFunctionWithMessage(Cur, f, c, w, t).escaped

\* All there is to see of the runner named RunnerName: whether it is loaded,
\* its three handles and the objects behind them (program, variable values,
\* observers, bindings, cursor).
View(st, RunnerName) ==
    LET Story == st.LoadedStories[RunnerName]
        Globals == st.GlobalVariables[RunnerName]
        Runner == st.ActiveRunners[RunnerName]
    IN [loaded |-> IsStoryLoaded(st, RunnerName),
        handles |-> <<Story, Globals, Runner>>,
        story |-> IF Story = NULL THEN DeadStory ELSE st.storyHeap[Story],
        globals |-> IF Globals = NULL THEN DeadGlobals ELSE st.globalsHeap[Globals],
        runner |-> IF Runner = NULL THEN DeadRunner ELSE st.runnerHeap[Runner],
        phase |-> IF Runner = NULL THEN "none" ELSE Phase(st, RunnerName),
        choices |-> IF Runner = NULL THEN <<>> ELSE CurrentChoices(st, Runner)]

\* C10: for any two distinct names A and B, every operation addressed to A
\* (LoadStoryForRunner, ReleaseRunnerResources, GetCurrentText, MakeChoice,
\* SetVariable, ObserveVariable) leaves B's loaded status, handles, cursor
\* phase, pending choices, variable values and observer registrations
\* unchanged.
C10_OtherRunnerUntouched ==
    AtRest =>
        \A A \in Names, B \in Names :
            A # B =>
                LET before == View(Cur, B)
                    same(st) == View(st, B) = before
                IN /\ \A a \in Assets :
                         \A f \in (IF AssetInvalid(a) THEN {"none"} ELSE LoadFailures) :
                            same(LoadStoryForRunner(Cur, a, A, f).st)
                   /\ same(ReleaseRunnerResources(Cur, A))
                   /\ \A t \in ThrowAts : same(GetCurrentText(WithListener(Cur, TRUE), A, t).st)
                   /\ \A i \in ChoiceInputs, t \in 0..3 : same(MakeChoice(Cur, i, A, t).st)
                   /\ \A v \in VarInputs, x \in HostStrings, t \in 0..1 :
                         same(SetVariable(WithListener(Cur, TRUE), v, x, A, t).st)
                   /\ \A v \in VarInputs, t \in 0..1 : same(ObserveVariable(Cur, v, A, t).st)

\* SetVariable has just succeeded on one name while both names are loaded from
\* the same program and the other one holds an observer.
C10_Witness ==
    /\ last.op = "SetVariable"
    /\ last.ok
    /\ \A n \in Names : IsStoryLoaded(Cur, n)
    /\ storyHeap[LoadedStories["MainStory"]].prog = storyHeap[LoadedStories["Side"]].prog
    /\ \E n \in Names : n # last.name /\ HadRegs(Cur, n)

\* C11: the type inferred from a host string follows this order: "true" or
\* "false" ignoring case gives the boolean; otherwise a numeric string without
\* "." gives an integer; otherwise a numeric string gives a float; otherwise
\* the string itself; the empty string gives the empty string value.
C11_InferenceOrder ==
    last.op = "InferInkValue" =>
        LET isBool == EqualsIgnoreCase(hostValue, StrTrue)
                        \/ EqualsIgnoreCase(hostValue, StrFalse)
            numeric == IsNumeric(hostValue)
            fractional == Contains(hostValue, ".")
        IN /\ isBool => inferred = BoolVal(EqualsIgnoreCase(hostValue, StrTrue))
           /\ (~isBool /\ numeric /\ ~fractional) => inferred.type = "Int32"
           /\ (~isBool /\ numeric /\ fractional) => inferred.type = "Float"
           /\ (~isBool /\ ~numeric) => inferred = StrVal(hostValue)
           /\ hostValue = <<>> => inferred = StrVal(<<>>)

\* The type of a numeric string without "." has just been inferred.
C11_Witness ==
    /\ last.op = "InferInkValue"
    /\ hostValue = <<"-", "5", "0">>
    /\ inferred = IntVal(0 - 50)

\* The canonical string forms of the round trip: "true" and "false"; an
\* integer of the int32 range written with an optional "-", no leading zero
\* and no "-0"; a float written as such an integer part, ".", and one to six
\* decimals without a trailing zero (a lone "0" excepted), negative zero
\* excluded.
CanonicalDigits(d) ==
    /\ d # <<>>
    /\ \A k \in 1..Len(d) : IsDigit(d[k])
    /\ Len(d) > 1 => d[1] # "0"

CanonicalBool(str) == str \in {StrTrue, StrFalse}

CanonicalInt(str) ==
    /\ str # <<>>
    /\ LET neg == str[1] = "-"
           d == IF neg THEN Tail(str) ELSE str
       IN CanonicalDigits(d) /\ ~(neg /\ d = <<"0">>)
    /\ FitsInt32(str)

CanonicalFloat(str) ==
    /\ str # <<>>
    /\ LET neg == str[1] = "-"
           body == IF neg THEN Tail(str) ELSE str
           dots == {k \in 1..Len(body) : body[k] = "."}
       IN /\ Cardinality(dots) = 1
          /\ LET k == CHOOSE k \in dots : TRUE
                 whole == SubSeq(body, 1, k - 1)
                 frac == SubSeq(body, k + 1, Len(body))
             IN /\ CanonicalDigits(whole)
                /\ frac # <<>> /\ Len(frac) <= 6
                /\ \A j \in 1..Len(frac) : IsDigit(frac[j])
                /\ Len(frac) > 1 => frac[Len(frac)] # "0"
                /\ neg => \E j \in 1..Len(body) : body[j] \notin {"0", "."}

C13_OverflowFallsBackToString ==
    (/\ last.op = "InferInkValue"
     /\ IsNumeric(hostValue)
     /\ ~Contains(hostValue, ".")
     /\ ~FitsInt32(hostValue)) => inferred = StrVal(hostValue)

\* C14: SetVariable(v, s, N) on a loaded runner returns false, leaves every
\* variable of every runner unchanged and emits no variable-changed
\* notification when v does not exist in N's globals or when the type of v
\* differs from the type inferred from s.
C14_RefusedSetChangesNothing ==
    AtRest =>
        \A n \in Names, v \in VarInputs, x \in HostStrings \cup {hostValue}, t \in 0..1 :
            LET Globals == GetGlobals(Cur, n)
                r == SetVariable(WithListener(Cur, TRUE), v, x, n, t)
            IN (/\ IsStoryLoaded(Cur, n)
                /\ \/ v \notin VarNames
                   \/ globalsHeap[Globals].vars[v].type # InferInkValue(x).type) =>
                    /\ ~r.retBool
                    /\ r.events = <<>>
                    /\ r.st = WithListener(Cur, TRUE)

\* set_var has just refused a value for a runner that holds an observer.
C14_Witness ==
    /\ last.op = "SetVariable"
    /\ last.note = "refused"
    /\ ~last.ok
    /\ HadRegs(Cur, last.name)

\* The variable-changed notifications among the events of a call.
VarEvents(events) == SelectSeq(events, LAMBDA e : e.kind = "var")

\* The number of observers the globals object g holds for the variable v.
Registrations(st, g, v) ==
    Cardinality({k \in 1..Len(st.globalsHeap[g].observers) :
                    st.globalsHeap[g].observers[k].var = v})

\* What C15 asks of one call that took the state from st0 to r.st: if the
\* stored value of v changed, one notification per registration, each
\* carrying v and the rendering of the new value; none otherwise.
NotifiesChange(st0, r, g, v) ==
    LET new == r.st.globalsHeap[g].vars[v]
        ev == VarEvents(r.events)
    IN IF new # st0.globalsHeap[g].vars[v]
       THEN /\ Len(ev) = Registrations(st0, g, v)
            /\ \A k \in 1..Len(ev) :
                  ev[k].name = v /\ ev[k].value = ConvertInkValueToString(new)
       ELSE ev = <<>>

\* C15: with a listener bound, on a loaded runner N, in the state as it is and
\* in the state after one more ObserveVariable(v, N), every change of the
\* stored value of v through SetVariable or through story execution emits one
\* variable-changed notification per registration, carrying v and the string
\* rendering of the new value, within the call that caused the change; a
\* variable without registration produces none.
C15_ObserversNotified ==
    AtRest =>
        \A n \in Names, v \in VarNames :
            IsStoryLoaded(Cur, n) =>
                LET g == GetGlobals(Cur, n)
                    now == WithListener(Cur, TRUE)
                    observed == ObserveVariable(now, v, n, 0).st
                IN /\ Registrations(observed, g, v) = Registrations(now, g, v) + 1
                   /\ \A st0 \in {now, observed} :
                        /\ \A x \in HostStrings, t \in 0..1 :
                              NotifiesChange(st0, SetVariable(st0, v, x, n, t), g, v)
                        /\ \A t \in ThrowAts :
                              NotifiesChange(st0, GetCurrentText(st0, n, t), g, v)

\* SetVariable has just changed a variable of a runner that holds an observer.
C15_Witness ==
    /\ last.op = "SetVariable"
    /\ last.note = "changed"
    /\ last.name = "Side"
    /\ last.hadRegs
    /\ Registrations(Cur, GetGlobals(Cur, "Side"), "gold") > 0

\* C16: every variable-changed notification carries the name of the runner
\* whose globals changed, together with the variable name and the new value.
C16_NotificationNamesRunner ==
    \A n \in Names :
        /\ \A t \in ThrowAts :
              LET ev == VarEvents(GetCurrentText(WithListener(Cur, TRUE), n, t).events)
              IN \A k \in 1..Len(ev) : ev[k].runnerName = n
        /\ \A v \in VarInputs, x \in HostStrings, t \in 0..1 :
              LET ev == VarEvents(SetVariable(WithListener(Cur, TRUE), v, x, n, t).events)
              IN \A k \in 1..Len(ev) : ev[k].runnerName = n

\* The external-function events among the events of a call.
ExtEvents(events) == SelectSeq(events, LAMBDA e : e.kind = "ext")

\* C17: the event of an external-function call carries the registry name
\* whose runner handle is the calling runner; when the calling runner is
\* registered under no name (here: its entry taken out of ActiveRunners), the
\* event carries "MainStory" and is still delivered.
C17_EventNamesCaller ==
    AtRest =>
        \A n \in Names :
            IsStoryLoaded(Cur, n) =>
                LET Runner == GetRunner(Cur, n)
                    detached == [Cur EXCEPT !.ActiveRunners[n] = NULL]
                    ev == ExtEvents(GetCurrentText(Cur, n, 0).events)
                    evDetached == ExtEvents(TextLoop(detached, Runner, <<>>, <<>>, 0, 0).events)
                IN /\ \A k \in 1..Len(ev) : ev[k].runnerName = n
                   /\ Len(evDetached) = Len(ev)
                   /\ \A k \in 1..Len(evDetached) :
                         evDetached[k].runnerName = MainStoryRunnerName

\* GetCurrentText has just run a line that called a bound external function,
\* while the other runner is loaded as well.
C17_Witness ==
    /\ last.op = "GetCurrentText"
    /\ last.note = "called"
    /\ \A n \in Names : IsStoryLoaded(Cur, n)

\* The lines the runner r has not read yet in its node that call f.
RemainingCalls(st, r, f) ==
    LET lines == NodeOf(st, r).lines
    IN SelectSeq(SubSeq(lines, st.runnerHeap[r].line + 1, Len(lines)),
                 LAMBDA l : l.eff.kind = "call" /\ l.eff.fn = f)

C19_ReleaseIdempotent ==
    AtRest =>
        \A n \in Names :
            LET once == ReleaseRunnerResources(Cur, n)
                twice == ReleaseRunnerResources(once, n)
            IN /\ twice = once
               /\ ~twice.doubleFree
               /\ ~IsStoryLoaded(Cur, n) => once = Cur

\* ReleaseRunnerResources has just been called for a name that was not
\* loaded, while the other name holds an instance.
C19_Witness ==
    /\ last.op = "ReleaseRunnerResources"
    /\ ~last.wasLoaded
    /\ ~IsStoryLoaded(Cur, last.name)
    /\ \E n \in Names : n # last.name /\ IsStoryLoaded(Cur, n)

\* No story, globals or runner object is alive and no map or alias holds a
\* handle.
NothingHeld(st) ==
    /\ \A n \in Names : /\ st.LoadedStories[n] = NULL
                         /\ st.GlobalVariables[n] = NULL
                         /\ st.ActiveRunners[n] = NULL
    /\ st.CurrentStory = NULL
    /\ st.MainRunner = NULL
    /\ \A h \in Handles : /\ ~st.storyHeap[h].live
                           /\ ~st.globalsHeap[h].live
                           /\ ~st.runnerHeap[h].live

\* C20: after Deinitialize no name is loaded, the main aliases are null and
\* every story, globals and runner object that a load created, successful or
\* failed, has been deleted; and no load, release or Deinitialize ever deletes
\* an object that was already deleted.
C20_DeinitializeReleasesAll ==
    /\ last.op = "Deinitialize" => NothingHeld(Cur)
    /\ AtRest =>
          /\ NothingHeld(Deinitialize(Cur))
          /\ ~Deinitialize(Cur).doubleFree
          /\ \A n \in Names :
                /\ ~ReleaseRunnerResources(Cur, n).doubleFree
                /\ \A a \in Assets, f \in LoadFailures :
                      ~LoadStoryForRunner(Cur, a, n, f).st.doubleFree

\* Deinitialize has just run on a subsystem that held an instance with
\* observers or bindings.
C20_Witness ==
    /\ last.op = "Deinitialize"
    /\ last.wasLoaded
    /\ last.hadRegs
    /\ NothingHeld(Cur)

\* C21: when LoadStoryForRunner(P, "MainStory") has returned false, GetStory()
\* and GetMainRunner() both return null, whatever they returned before.
C21_FailedMainLoadClearsAliases ==
    (last.op = "LoadStoryForRunner" /\ last.name = MainStoryRunnerName /\ ~last.ok)
        => /\ GetStory(Cur) = NULL
           /\ GetMainRunner(Cur) = NULL

\* get_var(VariableName).IsSet() on the globals of RunnerName: the variable is
\* declared by the program the runner was loaded from.
VariableExists(st, VariableName, RunnerName) ==
    /\ GetGlobals(st, RunnerName) # NULL
    /\ VariableName \in VarNames

\* C22: GetVariableValueAsString(v, bFound) leaves bFound true exactly when v
\* exists in the globals of the main runner, also when its value renders as
\* the empty string, and false when v does not exist or the main runner is
\* not loaded, whatever bFound held before the call.
C22_LegacyFoundFlag ==
    \A v \in VarInputs, b \in BOOLEAN :
        GetVariableValueAsString(Cur, v, b, 0).bFound
            = VariableExists(Cur, v, MainStoryRunnerName)

\* The boolean a rendered value stands for: true / false in any case, or a
\* number, which is true when its integer part is not zero.
InterpretableAsBool(str) ==
    \/ EqualsIgnoreCase(str, StrTrue)
    \/ EqualsIgnoreCase(str, StrFalse)
    \/ IsNumeric(str)

BoolInterpretation(str) ==
    IF EqualsIgnoreCase(str, StrTrue) THEN TRUE
    ELSE IF EqualsIgnoreCase(str, StrFalse) THEN FALSE
    ELSE Atoi(str) # 0

\* C23: GetVariableValueAsBool(v, bFound, OutValue) sets bFound to true if and
\* only if v exists, returns true if and only if v exists and its value can
\* be read as a boolean, and then OutValue is that boolean.
C23_BoolFoundIffExists ==
    \A v \in VarInputs :
        LET r == GetVariableValueAsBool(Cur, v, 0)
            exists == VariableExists(Cur, v, MainStoryRunnerName)
            str == GetVariable(Cur, v, MainStoryRunnerName, 0).retText
        IN /\ r.bFound = exists
           /\ r.ret = (exists /\ InterpretableAsBool(str))
           /\ r.ret => r.OutValue = BoolInterpretation(str)

\* C24: ObserveVariable(v, N) for a name N that is not loaded installs
\* nothing: no state changes, and after a later successful load of N no
\* registration for v exists and neither SetVariable nor GetCurrentText on N
\* emits a variable-changed notification, until ObserveVariable is called
\* again after the load.
C24_ObserveUnloadedInstallsNothing ==
    AtRest =>
        \A n \in Names, v \in VarInputs :
            ~IsStoryLoaded(Cur, n) =>
                LET observed == ObserveVariable(Cur, v, n, 0).st
                IN /\ observed = Cur
                   /\ \A a \in ProgIds :
                        LET loaded == WithListener(
                                        LoadStoryForRunner(observed, a, n, "none").st, TRUE)
                            g == GetGlobals(loaded, n)
                            again == ObserveVariable(loaded, v, n, 0).st
                        IN /\ loaded.globalsHeap[g].observers = <<>>
                           /\ \A x \in HostStrings :
                                VarEvents(SetVariable(loaded, v, x, n, 0).events) = <<>>
                           /\ VarEvents(GetCurrentText(loaded, n, 0).events) = <<>>
                           /\ v \in VarNames => Registrations(again, g, v) = 1

\* ObserveVariable has just been called for a name that is not loaded, while
\* the other name holds an instance.
C24_Witness ==
    /\ last.op = "ObserveVariable"
    /\ ~last.wasLoaded
    /\ ~last.ok
    /\ ~IsStoryLoaded(Cur, last.name)
    /\ \E n \in Names : n # last.name /\ IsStoryLoaded(Cur, n)

\* A runner is built on its globals and both on their story.
KindRank(kind) ==
    CASE kind = "runner" -> 1 [] kind = "globals" -> 2 [] OTHER -> 3

\* Of two deletions for the same name with no creation in between (the same
\* instance), the one of the runner comes before the one of the globals and
\* that before the one of the story.
TeardownOrdered(log) ==
    \A i \in 1..Len(log), j \in 1..Len(log) :
        ( /\ i < j
          /\ log[i].ev = "delete" /\ log[j].ev = "delete"
          /\ log[i].name = log[j].name
          /\ \A k \in i..j : log[k].ev # "new" )
        => KindRank(log[i].kind) < KindRank(log[j].kind)

\* The handles the maps hold for RunnerName, by kind.
HandlesOf(st, RunnerName) ==
    {e \in {[kind |-> "runner", h |-> st.ActiveRunners[RunnerName]],
            [kind |-> "globals", h |-> st.GlobalVariables[RunnerName]],
            [kind |-> "story", h |-> st.LoadedStories[RunnerName]]} : e.h # NULL}

\* If the operation created anything, every handle the name held when it
\* started was deleted before the first creation.
TeardownBeforeRebuild(st0, log, RunnerName) ==
    \A k \in 1..Len(log) :
        log[k].ev = "new" =>
            \A e \in HandlesOf(st0, RunnerName) :
                \E i \in 1..(k - 1) :
                    /\ log[i].ev = "delete"
                    /\ log[i].kind = e.kind /\ log[i].h = e.h
                    /\ log[i].name = RunnerName

\* The number of objects of a kind alive for RunnerName after the first k
\* entries of the log.
AliveFor(st0, log, RunnerName, kind, k) ==
    LET held == IF \E e \in HandlesOf(st0, RunnerName) : e.kind = kind THEN 1 ELSE 0
        count(ev) == Cardinality({i \in 1..k : /\ log[i].ev = ev
                                               /\ log[i].kind = kind
                                               /\ log[i].name = RunnerName})
    IN held + count("new") - count("delete")

\* C25: LoadStoryForRunner(P, N) tears down before it rebuilds: every handle
\* of the previous instance of N is deleted before any handle of the new one
\* is created, so at no point of the call two stories (or globals, or runners)
\* are alive for one name; and in every teardown (release, Deinitialize and
\* the failure paths of load) a runner is deleted before its globals and the
\* globals before their story.
C25_TeardownThenRebuild ==
    AtRest =>
        /\ TeardownOrdered(Deinitialize(Cur).log)
        /\ \A n \in Names :
              /\ TeardownOrdered(ReleaseRunnerResources(Cur, n).log)
              /\ \A a \in Assets :
                    \A f \in (IF AssetInvalid(a) THEN {"none"} ELSE LoadFailures) :
                        LET log == LoadStoryForRunner(Cur, a, n, f).st.log
                        IN /\ TeardownOrdered(log)
                           /\ TeardownBeforeRebuild(Cur, log, n)
                           /\ \A k \in 0..Len(log), kind \in {"runner", "globals", "story"} :
                                  AliveFor(Cur, log, n, kind, k) \in {0, 1}

\* A load of a name that held an instance with observers or bindings has just
\* failed and left the name without instance, while the other name is loaded.
C25_Witness ==
    /\ last.op = "LoadStoryForRunner"
    /\ ~last.ok
    /\ last.wasLoaded
    /\ last.hadRegs
    /\ HandlesOf(Cur, last.name) = {}
    /\ \E n \in Names : n # last.name /\ HandlesOf(Cur, n) # {}

\* The text of the lines the runner r has not read yet, in order: those of its
\* node from the cursor to the next choice point or the end.
PendingText(st, r) ==
    LET lines == NodeOf(st, r).lines
        read == st.runnerHeap[r].line
    IN [k \in 1..(Len(lines) - read) |-> lines[read + k].text]

\* C26: with no interpreter error, GetCurrentText(N) on a loaded runner
\* returns the texts of all pending lines in order, leaves the runner unable
\* to continue, and an immediately repeated GetCurrentText(N) returns the
\* empty string, emits nothing and changes nothing.
C26_TextDrainsRunner ==
    AtRest =>
        \A n \in Names :
            IsStoryLoaded(Cur, n) =>
                LET Runner == GetRunner(Cur, n)
                    first == GetCurrentText(WithListener(Cur, TRUE), n, 0)
                    second == GetCurrentText(first.st, n, 0)
                IN /\ first.retText = PendingText(Cur, Runner)
                   /\ ~can_continue(first.st, Runner)
                   /\ second.retText = <<>>
                   /\ second.events = <<>>
                   /\ second.st = first.st

\* GetCurrentText has just returned text of a loaded runner and left it at a
\* choice point.
C26_Witness ==
    /\ last.op = "GetCurrentText"
    /\ last.ok
    /\ last.wasLoaded
    /\ IsStoryLoaded(Cur, last.name)
    /\ ~can_continue(Cur, GetRunner(Cur, last.name))
    /\ num_choices(Cur, GetRunner(Cur, last.name)) > 0

\* C27: a choice snapshot is invalidated as soon as text is advanced or a
\* choice is made: once ConfirmSelection has made a choice (the runner has
\* moved on), a second ConfirmSelection with the same index and no new fetch,
\* at once or after the story's text was advanced, triggers the Error pin
\* only and hands nothing to the interpreter.
C27_SnapshotInvalidatedByChoice ==
    \A i \in ChoiceInputs :
        LET first == ChoiceNodeExecuteInput(Cur, AvailableChoices, "ConfirmSelection",
                                            i, TRUE)
            advanced == GetCurrentText(first.st, MainStoryRunnerName, 0).st
            second(st) == ChoiceNodeExecuteInput(st, first.AvailableChoices,
                                                 "ConfirmSelection", i, TRUE)
        IN first.st # Cur =>
              \A st \in {first.st, advanced} :
                  /\ second(st).triggered = <<"Error">>
                  /\ ~second(st).forwarded

\* C28: the main aliases never dangle: CurrentStory is null or the live story
\* registered under MainStory, MainRunner is null or the live runner
\* registered under MainStory; and a load or release of any other name leaves
\* both as they are.
C28_AliasesNeverDangle ==
    /\ CurrentStory # NULL =>
            /\ CurrentStory = LoadedStories[MainStoryRunnerName]
            /\ storyHeap[CurrentStory].live
    /\ MainRunner # NULL =>
            /\ MainRunner = ActiveRunners[MainStoryRunnerName]
            /\ runnerHeap[MainRunner].live
    /\ AtRest =>
          \A n \in Names \ {MainStoryRunnerName} :
              LET same(st) == /\ GetStory(st) = GetStory(Cur)
                              /\ GetMainRunner(st) = GetMainRunner(Cur)
              IN /\ same(ReleaseRunnerResources(Cur, n))
                 /\ \A a \in Assets :
                      \A f \in (IF AssetInvalid(a) THEN {"none"} ELSE LoadFailures) :
                          same(LoadStoryForRunner(Cur, a, n, f).st)

\* MainStory has just been released, which cleared both aliases, while the
\* other name keeps its instance.
C28_Witness ==
    /\ last.op = "ReleaseRunnerResources"
    /\ last.name = MainStoryRunnerName
    /\ last.wasLoaded
    /\ CurrentStory = NULL
    /\ MainRunner = NULL
    /\ IsStoryLoaded(Cur, "Side")

\* The states in which a listener runs during GetCurrentText on runner r: a
\* broadcast is made from inside getline, after the line's effect and before
\* getline returns to the loop, which then reads can_continue of r again.
RECURSIVE BroadcastStates(_, _)
BroadcastStates(st, r) ==
    IF ~can_continue(st, r) THEN {}
    ELSE LET g == getline(st, r, 2, 0)
         IN (IF g.events # <<>> THEN {g.st} ELSE {}) \cup BroadcastStates(g.st, r)

\* The states in which a listener runs during SetVariable: the broadcast is
\* made from inside globals::set_var, after the assignment.
BroadcastStatesOfSet(st, VariableName, Value, RunnerName) ==
    LET r == SetVariable(st, VariableName, Value, RunnerName, 0)
    IN IF VarEvents(r.events) # <<>> THEN {r.st} ELSE {}

\* What the listener leaves in the log when it calls ReleaseRunnerResources
\* or LoadStoryForRunner for RunnerName from inside the broadcast.
ListenerLogs(st, RunnerName) ==
    {ReleaseRunnerResources(st, RunnerName).log}
        \cup {LoadStoryForRunner(st, a, RunnerName, "none").st.log : a \in Assets}

Destroyed(log, e) ==
    \E i \in 1..Len(log) :
        log[i].ev = "delete" /\ log[i].kind = e.kind /\ log[i].h = e.h

\* C29: release is safe re-entrantly: when a listener of the variable-changed
\* notification or of an external-function event calls ReleaseRunnerResources
\* or LoadStoryForRunner for the runner whose set_var (SetVariable) or getline
\* (GetCurrentText) is still on the stack, no handle that call still uses (the
\* globals for set_var; the runner, its globals and its story for getline) is
\* destroyed before the call returns.
C29_ReentrantReleaseSafe ==
    \A n \in Names :
        LET now == WithListener(Cur, TRUE)
            inUse == HandlesOf(now, n)
        IN /\ \A v \in VarInputs, x \in HostStrings :
                \A mid \in BroadcastStatesOfSet(now, v, x, n) :
                    \A log \in ListenerLogs(mid, n) :
                        \A e \in inUse : e.kind = "globals" => ~Destroyed(log, e)
           /\ GetRunner(now, n) # NULL =>
                \A mid \in BroadcastStates(now, GetRunner(now, n)) :
                    \A log \in ListenerLogs(mid, n) :
                        \A e \in inUse : ~Destroyed(log, e)

\* Whether Get has a value of the requested type for a stored value: the
\* same type, a number for a number, or a string for anything.
Convertible(InkValue, VariableType) ==
    \/ VariableType = "String"
    \/ InkValue.type = InkTypeOf(VariableType)
    \/ VariableType \in {"Int", "Float"} /\ InkValue.type \in {"Int32", "Float"}

\* C30: on a loaded main runner, Get of a variable that does not exist, or
\* whose stored type is not the requested one and has no conversion to it,
\* writes the default of the requested type (false, 0, 0.0, empty string) to
\* Value and triggers Error only; Out is triggered, alone, only when Value was
\* set from the stored value: the stored value itself when the types agree,
\* its whole part or its rendering otherwise.
C30_GetDefaultsOnFailure ==
    IsStoryLoaded(Cur, MainStoryRunnerName) =>
        \A name \in VarInputs, T \in VariableTypes :
            LET r == PropertyNodeExecuteInput(Cur, ValueProp, name, "Get", T, TRUE)
                exists == VariableExists(Cur, name, MainStoryRunnerName)
                stored == globalsHeap[GetGlobals(Cur, MainStoryRunnerName)].vars[name]
                usable == exists /\ Convertible(stored, T)
            IN /\ r.st = Cur
               /\ ~usable => /\ r.ValueProp = TypeDefault(T)
                             /\ r.triggered = <<"Error">>
               /\ usable => /\ r.triggered = <<"Out">>
                            /\ r.ValueProp.type = InkTypeOf(T)
                            /\ stored.type = InkTypeOf(T) => r.ValueProp = stored
                            /\ T = "String" => r.ValueProp.s = ConvertInkValueToString(stored)
                            /\ T = "Int" /\ stored.type = "Float" =>
                                  /\ r.ValueProp.i * 1000000 <= stored.i
                                  /\ stored.i < (r.ValueProp.i + 1) * 1000000
                            /\ T = "Float" /\ stored.type = "Int32" =>
                                  r.ValueProp.i = stored.i * 1000000

\* The property node has just run Get for a Bool on the variable gold while
\* gold holds the integer 5 and Value held something else before: Value is
\* false and only the Error pin was triggered.
C30_Witness ==
    /\ last.op = "PropertyNode" /\ last.note = "Get" /\ last.name = "gold"
    /\ IsStoryLoaded(Cur, MainStoryRunnerName)
    /\ globalsHeap[GetGlobals(Cur, MainStoryRunnerName)].vars["gold"] = IntVal(5)
    /\ ValueProp = BoolVal(FALSE)
    /\ triggered = <<"Error">>

\* C31: an execution of the choice node's In pin triggers exactly one output,
\* once: ChoicesAvailable when at least one choice was fetched, Error
\* otherwise.
C31_InTriggersOnce ==
    last.op = "In" =>
        /\ Len(triggered) = 1
        /\ triggered[1] = (IF AvailableChoices # <<>> THEN "ChoicesAvailable" ELSE "Error")

\* The node can be polled: it is active on a loaded main runner, in a world,
\* with a variable name.
Pollable ==
    /\ obsNode.active
    /\ obsNode.hasWorld
    /\ obsNode.InkVariableName # ""
    /\ IsStoryLoaded(Cur, MainStoryRunnerName)

\* C32: right after a poll, a further poll with the subsystem unchanged finds
\* the same value (or the same not-found status) as the poll before it and
\* triggers nothing.
C32_UnchangedPollSilent ==
    (last.op = "PollInkVariable" /\ Pollable) =>
        PollInkVariable(obsNode, Cur).triggered = <<>>

StopOps == {"Deactivate", "OnDeactivate", "Cleanup"}

Answers == [worldValid : BOOLEAN, inputReady : BOOLEAN, componentOk : BOOLEAN]

\* C34: while a QTE is active, StartQTE with any asset and any instance ID
\* returns NAME_None, broadcasts nothing and changes no member of the
\* subsystem: instance ID, mash count, hold start time, timer and bindings of
\* the active QTE stay as they are.
C34_StartWhileActiveRefused ==
    qte.bIsQTEActive =>
        \A a \in QTEAssetNames \cup {NoAsset}, o \in OptionalInstanceIDs, e \in Answers :
            StartQTE(Entered(qte), a, o, e.inputReady, e.componentOk, e.worldValid)
                = Entered(qte)

\* StartQTE has been called while a QTE was active.
C34_Witness_CalledWhileActive ==
    /\ qte.op = "StartQTE"
    /\ qte.wasActive
    /\ qte.bIsQTEActive
    /\ qte.ret = NAME_None
    /\ qte.MashCount > 0

StartedSerials == {p[1] : p \in qteHistory.started}

\* C35: a QTE for which OnQTEStarted was broadcast has no outcome while it is
\* the active one and exactly one afterwards, never a second, and the outcome
\* carries the instance ID OnQTEStarted carried.
C35_OneOutcomePerStartedQTE ==
    /\ \A p \in qteHistory.started :
            (\E e \in qteHistory.ended : e[1] = p[1])
                <=> ~(qte.bIsQTEActive /\ qte.serial = p[1])
    /\ \A e \in qteHistory.ended : e[1] \in StartedSerials => e \in qteHistory.started
    /\ qteHistory.twice \cap StartedSerials = {}

\* Two QTEs were started and ended, one as a success and one as a failure.
C35_Witness_BothOutcomes ==
    /\ Cardinality(qteHistory.started) = 2
    /\ qteHistory.ended = qteHistory.started
    /\ ~qte.bIsQTEActive
    /\ \E i \in DOMAIN qte.events : qte.events[i].ev = "Succeeded"
    /\ qte.op = "Triggered"

\* C36: an outcome is broadcast only for a QTE whose OnQTEStarted was
\* broadcast before, and a StartQTE call that returns NAME_None broadcasts
\* nothing and, made while no QTE was active, leaves none active.
C36_OutcomeOnlyAfterStarted ==
    /\ qteHistory.unstarted = {}
    /\ (qte.op = "StartQTE" /\ qte.ret = NAME_None) =>
            /\ qte.events = <<>>
            /\ ~qte.wasActive => ~qte.bIsQTEActive

\* A timer that comes due when no QTE is active only uses itself up.
LateTimerIdle ==
    (qte'.op = "TimeoutQTE" /\ ~qte.bIsQTEActive) =>
        qte' = [Entered(qte) EXCEPT !.QTEDurationTimerHandle = FALSE,
                                    !.op = "TimeoutQTE", !.wasActive = FALSE]

\* C37: with a timer manager that lets no timer wait for ever, every active
\* QTE becomes inactive; the timer that comes due on an active QTE ends it
\* as a failure, and one that comes due after the QTE ended has no effect.
C37_TimerEndsQTE ==
    /\ qte.bIsQTEActive ~> ~qte.bIsQTEActive
    /\ [][LateTimerIdle]_vars
    /\ [][(qte'.op = "TimeoutQTE" /\ qte.bIsQTEActive) =>
            (~qte'.bIsQTEActive \/ qte'.heard # NAME_None)
            /\ qte'.events[1] = [ev |-> "Failed", id |-> qte.ActiveQTEInfo.InstanceID,
                                 serial |-> qte.serial]]_vars

\* The timer has ended a QTE that had taken input before.
C37_Witness_TimedOut ==
    /\ qte.op = "TimeoutQTE"
    /\ qte.wasActive
    /\ ~qte.bIsQTEActive
    /\ qte.events # <<>>

\* The active QTE is a mash QTE whose threshold is a whole number T >= 1.
WholeMash ==
    /\ qte.bIsQTEActive
    /\ InfoGetType(qte.ActiveQTEInfo) = "Mash"
    /\ InfoGetSuccessThreshold(qte.ActiveQTEInfo) % 10 = 0
    /\ InfoGetSuccessThreshold(qte.ActiveQTEInfo) >= 10

\* C38: the mash count is 0 after every StartQTE that started a QTE; on an
\* active mash QTE with whole threshold T it is below T, a triggered input
\* with the QTE's ID raises it by one, and the QTE succeeds on that input
\* exactly when the count reaches T.
C38_MashSucceedsAtThreshold ==
    /\ (qte.op = "StartQTE" /\ qte.ret # NAME_None) => qte.MashCount = 0
    /\ WholeMash =>
        LET T == InfoGetSuccessThreshold(qte.ActiveQTEInfo) \div 10
            id == qte.ActiveQTEInfo.InstanceID
        IN /\ qte.MashCount < T
           /\ \A e \in Answers :
                LET r == HandleQTEInputTriggered(Entered(qte), id, e.worldValid,
                                                 e.inputReady, e.componentOk, NoListener)
                    won == \E i \in DOMAIN r.events : r.events[i].ev = "Succeeded"
                IN /\ won <=> qte.MashCount + 1 = T
                   /\ ~won => (r.bIsQTEActive /\ r.MashCount = qte.MashCount + 1)
                   /\ \A i \in DOMAIN r.events : r.events[i].ev # "Failed"

\* The second QTE of the run, a mash QTE, has succeeded on an input.
C38_Witness_SecondMashWon ==
    /\ qte.op = "Triggered"
    /\ Len(qte.events) = 2
    /\ qte.events[1].ev = "Progress"
    /\ qte.events[2] = [ev |-> "Succeeded", id |-> qte.events[1].id, serial |-> 2]

InstanceIDs == (OptionalInstanceIDs \ {NAME_None}) \cup {<<"QTEInst_", n>> : n \in 1..MaxStarts}

InputEvents == {"Triggered", "Started", "Completed", "Canceled", "FailTriggered"}

\* C39: an input callback of any kind that arrives when no QTE is active, or
\* with an instance ID other than the active QTE's, leaves every member of
\* the subsystem as it was and broadcasts nothing.
C39_ForeignInputIgnored ==
    \A ev \in InputEvents, id \in InstanceIDs, e \in Answers, l \in Listeners(qte) :
        (~qte.bIsQTEActive \/ qte.ActiveQTEInfo.InstanceID # id) =>
            InputHandler(Entered(qte), [event |-> ev, id |-> id], e.worldValid,
                         e.inputReady, e.componentOk, l) = Entered(qte)

\* The fail input of an ended QTE has arrived while another QTE was active.
C39_Witness_StaleFailInput ==
    /\ qte.op = "FailTriggered"
    /\ qte.wasActive
    /\ qte.bIsQTEActive
    /\ qte.events = <<>>

\* C40: when a listener of the outcome calls StartQTE from inside the
\* broadcast, with an asset and an engine that would let an idle subsystem
\* start it, the call finds the ended QTE cleared and starts the new QTE, and
\* when EndQTE returns the new QTE is the active one with its own timer,
\* bindings, widget and a mash count of 0.
C40_ListenerStartsNewQTE ==
    qte.bIsQTEActive =>
        \A b \in BOOLEAN :
            LET r == EndQTEHeard(Entered(qte), b, TRUE, TRUE, TRUE, "mash")
            IN /\ r.heard # NAME_None
               /\ r.heard # qte.ActiveQTEInfo.InstanceID
               /\ r.bIsQTEActive
               /\ r.ActiveQTEInfo = ActiveQTEInfoOf("mash", r.heard)
               /\ r.MashCount = 0
               /\ r.HoldStartTime = 0
               /\ r.QTEDurationTimerHandle
               /\ r.InputBindingHandles = BindingsFor("mash", r.heard)
               /\ r.ActiveQTEWidgets = {r.heard}
               /\ r.events = <<[ev |-> IF b THEN "Succeeded" ELSE "Failed",
                                id |-> qte.ActiveQTEInfo.InstanceID, serial |-> qte.serial],
                               [ev |-> "Started", id |-> r.heard, serial |-> qte.serial + 1]>>

\* A listener has started a QTE from inside the outcome broadcast of a
\* cancelled one.
C40_Witness_StartedInsideBroadcast ==
    /\ qte.op = "CancelActiveQTE"
    /\ qte.heard # NAME_None
    /\ qte.bIsQTEActive
    /\ qte.ActiveQTEInfo.InstanceID = qte.heard
    /\ qte.QTEDurationTimerHandle
====
